---------------------------- MODULE Spec2Model ----------------------------
(***************************************************************************)
(* Model of the segmentation pipeline of XNAT_segmentation_to_nifti:       *)
(*   Step_2_3_DecodeSegmentation.py  (decode a batch of SEG objects)       *)
(*   ConcatMultiplObjects.py         (merge named segments, append frames) *)
(*   Step_2_4_NiftiGeneration.py     (resolve series, write volumes)       *)
(*                                                                         *)
(* Python's None is modelled as the empty sequence and a present value x   *)
(* as <<x>>, so that optional numbers and optional strings are comparable. *)
(* A 2D label array is the sequence of its pixels (row-major); its shape   *)
(* is carried beside it where the code reads it.                           *)
(***************************************************************************)
EXTENDS Integers, Sequences, FiniteSets, TLC

\* ------------------------------------------------------------- bounds
\* Largest number of frames of a decoded object on disk before a merge run.
MaxFrames == 2
\* Largest number of directives in a merge plan (folder key and "all" together).
MaxDirectives == 2

\* ---------------------------------------------------------- constants
\* numpy uint8 arithmetic wraps modulo 2^8 (slice_map[key] += px_data).
Uint8Mod == 256

None == << >>
Some(x) == << x >>

\* ------------------------------------------------------------ helpers
Max(S) == CHOOSE m \in S : \A x \in S : x <= m

Range(s) == { s[i] : i \in DOMAIN s }

IsPrefix(s, t) == Len(s) <= Len(t) /\ SubSeq(t, 1, Len(s)) = s

SeqsUpTo(S, n) == UNION { [1..k -> S] : k \in 0..n }

\* ----------------------------------------------------- input alphabets
\* SegmentSequence of the decoded objects: segment number -> label.
SegmentLabel(n) == IF n = 1 THEN "A" ELSE "B"

\* The 2D label arrays (two pixels) that frames carry: empty, binary
\* foreground, and a FRACTIONAL-type frame whose first pixel is 255.
PixelArrays == { <<0, 0>>, <<1, 0>>, <<255, 1>> }

\* A frame as decode_segmentation_dcm builds it (frame_dict).
Frame(idx, num, name, ipp, sop, px) ==
    [ frame_index |-> idx, segment_number |-> num, segment_name |-> name,
      segment_color |-> None, image_position_patient |-> ipp,
      ref_sop_uid |-> sop, pixel_data |-> px ]

\* Frames of decoded objects, without their index: (number, name) pairs
\* follow the segment map; a frame may lack its slice identity or position.
FrameShapes ==
    { Frame(0, Some(1), Some("A"), Some(<<0, 0, 1>>), Some("u1"), <<1, 0>>),
      Frame(0, Some(2), Some("B"), Some(<<0, 0, 1>>), Some("u1"), <<1, 0>>),
      Frame(0, Some(2), Some("B"), Some(<<0, 0, 1>>), Some("u1"), <<255, 1>>),
      Frame(0, Some(1), Some("A"), Some(<<0, 0, 2>>), Some("u2"), <<0, 0>>),
      Frame(0, Some(2), Some("B"), None, Some("u1"), <<1, 0>>),
      Frame(0, Some(1), Some("A"), None, None, <<1, 0>>),
      Frame(0, None, None, None, None, <<1, 0>>) }

\* frame_index is the position in the list (range(num_frames)).
Reindex(fs) == [ i \in DOMAIN fs |-> [ fs[i] EXCEPT !.frame_index = i - 1 ] ]

\* final_dict of decode_segmentation_dcm, as pickled.
SegData(fs) == [ num_frames |-> Len(fs), frames |-> fs ]

DecodedObjects == { SegData(Reindex(fs)) : fs \in SeqsUpTo(FrameShapes, MaxFrames) }

\* One entry of a merge plan list.  old_objects is {} when the key is missing
\* or the list is empty; new_object is None when the key is missing or the
\* name is empty (both are false under "not").
Directive(old, new) == [ old_objects |-> old, new_object |-> new ]

Directives ==
    { Directive({Some("A"), Some("B")}, Some("C")),
      Directive({Some("C"), Some("B")}, Some("D")),
      Directive({Some("Z")}, Some("C")),
      Directive({}, Some("C")),
      Directive({Some("A")}, None) }

\* merge_plan.json: lists under the object's own key and under "all".
MergePlans ==
    UNION { { [ own |-> o, all |-> a ] :
                a \in SeqsUpTo(Directives, MaxDirectives - Len(o)) } :
            o \in SeqsUpTo(Directives, MaxDirectives) }

VARIABLES
    pc,             \* position of the running script
    pkl_store,      \* the pickles on disk: path -> None | Some(seg_data)
    seg_dict,       \* data["selected_segmentations"] of the running script
    seg_order,      \* iteration order of seg_dict (dict insertion order)
    obj_i,          \* index in seg_order of the object being processed
    prepared_json,  \* PreparedSegmentations_info.json on disk (None: not written)
    merge_plan,     \* merge_plan.json: key -> list of directives
    dir_i,          \* index of the next directive of merges_for_this_seg
    seg_data,       \* the loaded pickle of the current object
    max_seg_num,    \* the running segment number counter of the current object
    study_series,   \* StudySeries_info.json: the series catalog, in dict order
    series_dirs,    \* series folders on disk: path -> None | Some(slice files)
    nifti_dir,      \* the NIFTI output folder: file name -> file
    overwrite,      \* the overwrite argument of the running step
    rerun,          \* FALSE in the first run of a script, TRUE in the second
    processed_series,      \* step 2.4.2's processed_series
    series_sop_uids_cache, \* step 2.4.3's series_sop_uids_cache
    assessor_dirs,  \* assessor folders on disk: path -> None | Some(.dcm files)
    json_store      \* the _withoutImageData.json files on disk: path -> content

common_vars == << pc, pkl_store, seg_dict, seg_order, obj_i, prepared_json >>

merge_vars == << merge_plan, dir_i, seg_data, max_seg_num >>

nifti_vars == << study_series, series_dirs, nifti_dir, overwrite, rerun,
                 processed_series, series_sop_uids_cache >>

decode_vars == << assessor_dirs, json_store >>

vars == << common_vars, merge_vars, nifti_vars, decode_vars >>

\* ------------------------------------------- ConcatMultiplObjects.py
\* The path of an object's pickle (seg_info["pkl_file"]).
PklPath(folder) == << "segmentations_pickles", folder >>

\* seg_meta as the decode step leaves it in PreparedSegmentations_info.json:
\* num_frames and the Counter of the non-None segment names.
NameCount(fs) ==
    LET names == { fs[i].segment_name[1] :
                     i \in { j \in DOMAIN fs : fs[j].segment_name # None } }
    IN  [ n \in names |->
            Cardinality({ i \in DOMAIN fs : fs[i].segment_name = Some(n) }) ]

\* A dict key that is absent, and one that is present with value v.
KeyAbsent == << >>
Present(v) == << v >>

\* Mutant of SegInfo: the frame count is not recorded.
SegInfoStaleCount(folder, data, ref_series_uid) ==
    [ pkl_file |-> Some(PklPath(folder)),
      num_frames |-> 0,
      segment_name_count |-> NameCount(data.frames),
      ref_series_uid |-> ref_series_uid,
      series_info |-> KeyAbsent ]

SegInfo(folder, data, ref_series_uid) ==
    [ pkl_file |-> Some(PklPath(folder)),
      num_frames |-> data.num_frames,
      segment_name_count |-> NameCount(data.frames),
      ref_series_uid |-> ref_series_uid,
      series_info |-> KeyAbsent ]

\* The decode step's inputs and sidecar files while another script runs.
DecodeIdle ==
    /\ assessor_dirs = << >>
    /\ json_store = << >>

\* The variables of the volume steps while another script runs.
NiftiIdle ==
    /\ study_series = << >>
    /\ series_dirs = << >>
    /\ nifti_dir = << >>
    /\ overwrite = FALSE
    /\ rerun = FALSE
    /\ processed_series = {}
    /\ series_sop_uids_cache = << >>

CurFolder == seg_order[obj_i]

\* merge_plan.get(seg_folder_name, []): the plan has a list under S1's key.
FolderMerges(plan, seg_folder_name) ==
    IF seg_folder_name = "S1" THEN plan.own ELSE << >>

\* Mutant of MergesForThisSeg: the wildcard directives come first.
MergesGlobalFirst(plan) == plan.all \o FolderMerges(plan, CurFolder)

\* merges_for_this_seg = folder_merges + global_merges
MergesForThisSeg(plan) == FolderMerges(plan, CurFolder) \o plan.all

\* seg_info.get("pkl_file")
PklFileOf(seg_info) ==
    IF "pkl_file" \in DOMAIN seg_info THEN seg_info.pkl_file ELSE None

\* A pickle file that pickle.load cannot read (truncated or not a pickle).
UnreadablePickle == [ unpicklable |-> TRUE ]

Unpicklable(file) == "unpicklable" \in DOMAIN file

\* existing_seg_numbers / max_seg_num at the start of an object.
ExistingSegNumbers(fs) ==
    { fs[i].segment_number[1] :
        i \in { j \in DOMAIN fs : fs[j].segment_number # None } }

\* Mutant of MaxSegNum: the counter starts at 0 whatever the frames carry.
MaxSegNumFromZero(fs) == 0

MaxSegNum(fs) ==
    IF ExistingSegNumbers(fs) = {} THEN 0 ELSE Max(ExistingSegNumbers(fs))

\* Mutant of InvalidDirective: no directive is taken as invalid.
InvalidDirectiveNever(d) == FALSE

\* not old_objects or not new_object_name
InvalidDirective(d) == d.old_objects = {} \/ d.new_object = None

\* A frame enters slice_map when its name is listed and it has a slice identity.
Selected(fr, old_objects) ==
    fr.segment_name \in old_objects /\ fr.ref_sop_uid # None

\* Mutant of MergeKey: frames are grouped by slice identity alone.
MergeKeySopOnly(fr) == << fr.ref_sop_uid, None >>

\* key = (ref_sop_uid, tuple(ipp) if ipp else None)
MergeKey(fr) == << fr.ref_sop_uid, fr.image_position_patient >>

Zeros(px) == [ i \in DOMAIN px |-> 0 ]

\* slice_map[key] += px_data, in the arrays' own uint8 type.
AddMask(sum, px) == [ i \in DOMAIN sum |-> (sum[i] + px[i]) % Uint8Mod ]

\* Mutant of ClipMask: the summed mask is kept as it is (no clip).
ClipMaskMissing(sum) == sum

\* np.clip(slice_map[key], 0, 1, out=slice_map[key])
ClipMask(sum) ==
    [ i \in DOMAIN sum |-> IF sum[i] < 0 THEN 0 ELSE IF sum[i] > 1 THEN 1 ELSE sum[i] ]

KeyPos(map, key) ==
    IF \E j \in DOMAIN map : map[j].key = key
    THEN CHOOSE j \in DOMAIN map : map[j].key = key
    ELSE 0

\* The loop over frames that fills slice_map (a dict: insertion ordered).
RECURSIVE Accumulate(_, _, _, _)
Accumulate(fs, old_objects, i, map) ==
    IF i > Len(fs) THEN map
    ELSE IF ~Selected(fs[i], old_objects) THEN Accumulate(fs, old_objects, i + 1, map)
    ELSE LET key  == MergeKey(fs[i])
             map1 == IF KeyPos(map, key) = 0
                     THEN Append(map, [ key |-> key, mask |-> Zeros(fs[i].pixel_data) ])
                     ELSE map
             j    == KeyPos(map1, key)
         IN  Accumulate(fs, old_objects, i + 1,
                        [ map1 EXCEPT ![j].mask = AddMask(@, fs[i].pixel_data) ])

SliceMap(fs, old_objects) ==
    LET summed == Accumulate(fs, old_objects, 1, << >>)
    IN  [ j \in DOMAIN summed |-> [ summed[j] EXCEPT !.mask = ClipMask(@) ] ]

\* Mutant of AnyNonZero: every summed mask counts as having foreground.
AnyNonZeroAlways(mask) == TRUE

\* np.any(sum_mask)
AnyNonZero(mask) == \E i \in DOMAIN mask : mask[i] # 0

\* Mutant of BuildNewFrames: a new frame is indexed by the position of its
\* key in slice_map, skipped keys included.
RECURSIVE BuildNewFramesByKeyPosition(_, _, _, _, _, _)
BuildNewFramesByKeyPosition(map, j, start_index, new_seg_num, new_object_name, acc) ==
    IF j > Len(map) THEN acc
    ELSE IF \A c \in DOMAIN map[j].mask : map[j].mask[c] = 0
         THEN BuildNewFramesByKeyPosition(map, j + 1, start_index, new_seg_num,
                                          new_object_name, acc)
    ELSE BuildNewFramesByKeyPosition(map, j + 1, start_index, new_seg_num, new_object_name,
            Append(acc, Frame(start_index + j - 1, Some(new_seg_num),
                              new_object_name, map[j].key[2], map[j].key[1],
                              map[j].mask)))

\* The loop that builds new_frames from slice_map.
RECURSIVE BuildNewFrames(_, _, _, _, _, _)
BuildNewFrames(map, j, start_index, new_seg_num, new_object_name, acc) ==
    IF j > Len(map) THEN acc
    ELSE IF ~AnyNonZero(map[j].mask)
         THEN BuildNewFrames(map, j + 1, start_index, new_seg_num, new_object_name, acc)
    ELSE BuildNewFrames(map, j + 1, start_index, new_seg_num, new_object_name,
            Append(acc, Frame(start_index + Len(acc), Some(new_seg_num),
                              new_object_name, map[j].key[2], map[j].key[1],
                              map[j].mask)))

NewFrames(fs, d, new_seg_num) ==
    BuildNewFrames(SliceMap(fs, d.old_objects), 1, Len(fs), new_seg_num,
                   d.new_object, << >>)

\* Mutant of NextSegNum: the counter is not advanced.
NextSegNumKept(counter) == counter

\* max_seg_num += 1 ; new_seg_num = max_seg_num
NextSegNum(counter) == counter + 1

\* Mutant of ExtendFrames: the frame list is replaced by the new frames.
ExtendFramesReplacing(fs, new_frames) == new_frames

\* frames.extend(new_frames)
ExtendFrames(fs, new_frames) == fs \o new_frames

\* seg_name_count[new_object_name] = len(new_frames)
SetNameCount(count, name, n) ==
    [ x \in DOMAIN count \cup {name} |-> IF x = name THEN n ELSE count[x] ]

\* Lines 147-172: next object of the batch; skip it (no directives, or no
\* pickle) or load its pickle and set the segment number counter.
\* pickle.load (line 164) is not guarded: on an unreadable file it raises
\* and the exception leaves main.
MergeLoadObject ==
    /\ pc = "merge_next"
    /\ obj_i <= Len(seg_order)
    /\ LET pkl_file_path == PklFileOf(seg_dict[CurFolder])
           skip == \/ MergesForThisSeg(merge_plan) = << >>
                   \/ pkl_file_path = None
                   \/ pkl_file_path[1] \notin DOMAIN pkl_store
                   \/ pkl_store[pkl_file_path[1]] = None
       IN  IF skip
           THEN /\ obj_i' = obj_i + 1
                /\ UNCHANGED << pc, dir_i, seg_data, max_seg_num >>
           ELSE IF Unpicklable(pkl_store[pkl_file_path[1]][1])
           THEN /\ pc' = "crashed"
                /\ UNCHANGED << obj_i, dir_i, seg_data, max_seg_num >>
           ELSE /\ seg_data' = pkl_store[pkl_file_path[1]][1]
                /\ max_seg_num' = MaxSegNum(seg_data'.frames)
                /\ dir_i' = 1
                /\ pc' = "merge_directive"
                /\ UNCHANGED obj_i
    /\ UNCHANGED << merge_plan, pkl_store, prepared_json, seg_dict, seg_order >>
    /\ UNCHANGED nifti_vars
    /\ UNCHANGED decode_vars

\* Lines 175-240: one merge directive, from its validity test to the update
\* of seg_data and seg_info.
MergeDirective ==
    /\ pc = "merge_directive"
    /\ dir_i <= Len(MergesForThisSeg(merge_plan))
    /\ LET d == MergesForThisSeg(merge_plan)[dir_i]
           new_seg_num == NextSegNum(max_seg_num)
           new_frames == NewFrames(seg_data.frames, d, new_seg_num)
           frames == ExtendFrames(seg_data.frames, new_frames)
       IN  IF InvalidDirective(d)
           THEN UNCHANGED << max_seg_num, seg_data, seg_dict >>
           ELSE /\ max_seg_num' = new_seg_num
                /\ IF new_frames = << >>
                   THEN UNCHANGED << seg_data, seg_dict >>
                   ELSE /\ seg_data' = [ seg_data EXCEPT !.frames = frames,
                                                         !.num_frames = Len(frames) ]
                        /\ seg_dict' = [ seg_dict EXCEPT ![CurFolder] =
                             [ @ EXCEPT !.segment_name_count =
                                   SetNameCount(@, d.new_object[1], Len(new_frames)),
                                 !.num_frames = Len(frames) ] ]
    /\ dir_i' = dir_i + 1
    /\ UNCHANGED << pc, merge_plan, pkl_store, prepared_json, seg_order, obj_i >>
    /\ UNCHANGED nifti_vars
    /\ UNCHANGED decode_vars

\* Lines 242-245: overwrite the object's pickle with seg_data.
MergeSavePickle ==
    /\ pc = "merge_directive"
    /\ dir_i > Len(MergesForThisSeg(merge_plan))
    /\ pkl_store' = [ pkl_store EXCEPT ![seg_dict[CurFolder].pkl_file[1]] = Some(seg_data) ]
    /\ obj_i' = obj_i + 1
    /\ pc' = "merge_next"
    /\ UNCHANGED << merge_plan, prepared_json, seg_dict, seg_order, dir_i,
                    seg_data, max_seg_num >>
    /\ UNCHANGED nifti_vars
    /\ UNCHANGED decode_vars

\* Lines 247-250: overwrite PreparedSegmentations_info.json.
MergeWriteJson ==
    /\ pc = "merge_next"
    /\ obj_i > Len(seg_order)
    /\ prepared_json' = Some(seg_dict)
    /\ pc' = "merge_done"
    /\ UNCHANGED << merge_plan, pkl_store, seg_dict, seg_order, obj_i, dir_i,
                    seg_data, max_seg_num >>
    /\ UNCHANGED nifti_vars
    /\ UNCHANGED decode_vars

\* The state the merge script starts from: PreparedSegmentations_info.json
\* and the pickles as the decode step wrote them, and a merge plan.
InitMerge ==
    /\ pc = "merge_next"
    /\ seg_order = << "S1" >>
    /\ merge_plan \in MergePlans
    /\ \E data \in DecodedObjects :
         /\ pkl_store = [ p \in { PklPath("S1") } |-> Some(data) ]
         /\ seg_dict = [ f \in { "S1" } |-> SegInfo(f, data, Some("sA")) ]
    /\ prepared_json = Some(seg_dict)
    /\ obj_i = 1
    /\ dir_i = 1
    /\ seg_data = SegData(<< >>)
    /\ max_seg_num = 0
    /\ NiftiIdle
    /\ DecodeIdle

NextMerge == MergeLoadObject \/ MergeDirective \/ MergeSavePickle \/ MergeWriteJson

SpecMerge == InitMerge /\ [][NextMerge]_vars



\* --------------------------------------- Step_2_4_NiftiGeneration.py
\* str() as the f-strings of the file names apply it to an optional value.
Str(opt) == IF opt = None THEN "None" ELSE opt[1]

\* One slice file of a series folder as pydicom reads it.  geometry stands
\* for the PixelSpacing, SliceThickness, ImageOrientationPatient and
\* ImagePositionPatient attributes, from which the affine is computed.
Slice(num, uid, rows, cols, geometry, px) ==
    [ InstanceNumber |-> num, SOPInstanceUID |-> uid, Rows |-> rows,
      Columns |-> cols, geometry |-> geometry, pixel_array |-> px ]

SliceU1 == Slice(Some(1), Some("u1"), 1, 2, "g1", <<10, 11>>)
SliceU2 == Slice(Some(2), Some("u2"), 1, 2, "g1", <<20, 21>>)
\* A file without InstanceNumber and without SOPInstanceUID.
SliceBare == Slice(None, None, 1, 2, "g2", <<30, 31>>)
\* A slice with three columns.
SliceWide == Slice(Some(2), Some("u2"), 1, 3, "g1", <<40, 41, 42>>)
\* A slice whose InstanceNumber is 0, the default of the ordering key.
SliceU0 == Slice(Some(0), Some("u0"), 1, 2, "g1", <<60, 61>>)

\* Contents of a series folder, in sorted file-name order (None: the path
\* is not a directory).
SeriesContents ==
    { None, Some(<< >>), Some(<<SliceU1>>), Some(<<SliceU1, SliceU2>>),
      Some(<<SliceU2, SliceU1>>), Some(<<SliceU1, SliceBare>>),
      Some(<<SliceU1, SliceWide>>), Some(<<SliceWide>>),
      Some(<<SliceBare, SliceU0>>) }

\* def sort_key(ds): return getattr(ds, "InstanceNumber", 0)
SortKey(ds) == IF ds.InstanceNumber = None THEN 0 ELSE ds.InstanceNumber[1]

\* list.sort is stable: x goes after the elements whose key is <= its own.
InsertSorted(sorted, x) ==
    LET before == { i \in DOMAIN sorted : SortKey(sorted[i]) <= SortKey(x) }
        k == IF before = {} THEN 0 ELSE Max(before)
    IN  SubSeq(sorted, 1, k) \o << x >> \o SubSeq(sorted, k + 1, Len(sorted))

RECURSIVE SortFrom(_, _, _)
SortFrom(files, i, sorted) ==
    IF i > Len(files) THEN sorted
    ELSE SortFrom(files, i + 1, InsertSorted(sorted, files[i]))

\* slices.sort(key=...)
SortSlices(files) == SortFrom(files, 1, << >>)

\* The affine built from the first sorted slice's attributes.
Affine(sample_ds) == sample_ds.geometry

SeriesShape(slices) == << slices[1].Rows, slices[1].Columns, Len(slices) >>

\* load_dicom_series: raises when there is no slice or when a slice's
\* pixel_array cannot be assigned into volume_3d[:, :, idx].
LoadDicomSeries(files) ==
    LET slices == SortSlices(files) IN
    IF files = << >> THEN [ ok |-> FALSE ]
    ELSE IF \E i \in DOMAIN slices :
               << slices[i].Rows, slices[i].Columns >> #
               << slices[1].Rows, slices[1].Columns >>
         THEN [ ok |-> FALSE ]
    ELSE [ ok |-> TRUE,
           volume_3d |-> [ i \in DOMAIN slices |-> slices[i].pixel_array ],
           affine |-> Affine(slices[1]),
           dims |-> SeriesShape(slices) ]

\* Mutant of LoadSopUidOrder: the slices are left in file-name order.
LoadSopUidOrderFileOrder(files) ==
    IF files = << >> THEN [ ok |-> FALSE ]
    ELSE [ ok |-> TRUE,
           sop_list |-> [ i \in DOMAIN files |-> files[i].SOPInstanceUID ],
           shape |-> << files[1].Rows, files[1].Columns, Len(files) >>,
           aff |-> files[1].geometry ]

\* load_sop_uid_order: raises when there is no slice.
LoadSopUidOrder(files) ==
    LET slices == SortSlices(files) IN
    IF files = << >> THEN [ ok |-> FALSE ]
    ELSE [ ok |-> TRUE,
           sop_list |-> [ i \in DOMAIN slices |-> slices[i].SOPInstanceUID ],
           shape |-> SeriesShape(slices),
           aff |-> Affine(slices[1]) ]

\* A file of the NIFTI folder.  nib.load fails on a file that is not loadable.
NiftiFile(shape, affine, data) ==
    [ loadable |-> TRUE, shape |-> shape, affine |-> affine, data |-> data ]

CorruptFile == [ loadable |-> FALSE, shape |-> << >>, affine |-> "", data |-> << >> ]

\* A volume left in the folder by a run over an earlier export.
OldFile == NiftiFile(<<1, 2, 1>>, "g1", << <<9, 9>> >>)

\* f"{series_number}.nii"
OriginalName(series_number) == << Str(series_number) >>

\* f"{series_number}_ON_{seg_name}__FN_{seg_folder_name}.nii"
SegName(series_number, seg_name, seg_folder_name) ==
    << Str(series_number), Str(seg_name), seg_folder_name >>

\* os.path.exists(nii_path)
Exists(dir, name) == name \in DOMAIN dir

\* nib.save(nifti_img, nii_path)
Save(dir, name, file) ==
    [ n \in DOMAIN dir \cup {name} |-> IF n = name THEN file ELSE dir[n] ]

\* os.path.isdir(series_path)
IsDir(path) == path \in DOMAIN series_dirs /\ series_dirs[path] # None

\* --- 2.4.1
\* Mutant of MatchedSeries: the last matching entry is taken.
MatchedSeriesLast(catalog, ref_uid) ==
    LET hits == { k \in DOMAIN catalog : catalog[k].series_uid = ref_uid }
    IN  IF hits = {} THEN 0 ELSE CHOOSE k \in hits : \A j \in hits : k >= j

\* The first catalog entry, in order, whose series_uid equals ref_uid (0: none).
MatchedSeries(catalog, ref_uid) ==
    LET hits == { k \in DOMAIN catalog : catalog[k].series_uid = ref_uid }
    IN  IF hits = {} THEN 0 ELSE CHOOSE k \in hits : \A j \in hits : k <= j

\* One iteration of the loop of step_2_4_1_create_ready2nifti.
Resolve(seg_info, catalog) ==
    IF seg_info.ref_series_uid = None THEN seg_info
    ELSE LET k == MatchedSeries(catalog, seg_info.ref_series_uid) IN
         IF k = 0 THEN [ seg_info EXCEPT !.series_info = Present(None) ]
         ELSE [ seg_info EXCEPT !.series_info = Present(Some(
                  [ series_folder_path |-> catalog[k].series_folder_path,
                    series_number |-> catalog[k].series_number,
                    series_uid |-> catalog[k].series_uid ])) ]

\* step_2_4_1_create_ready2nifti: Ready2Nifti_info.json is what the later
\* steps read as data["selected_segmentations"].
Step241 ==
    /\ pc = "s241"
    /\ seg_dict' = [ f \in DOMAIN seg_dict |-> Resolve(seg_dict[f], study_series) ]
    /\ pc' = "idle"
    /\ UNCHANGED << pkl_store, seg_order, obj_i, prepared_json >>
    /\ UNCHANGED merge_vars
    /\ UNCHANGED decode_vars
    /\ UNCHANGED << study_series, series_dirs, nifti_dir, overwrite, rerun,
                    processed_series, series_sop_uids_cache >>

\* --- 2.4.2
\* Mutant of SkipExisting242: an existing file is never skipped.
SkipExisting242Never(dir, name, ow) == FALSE

\* Lines 228-240: an existing file that nib.load can read is skipped when
\* overwrite is not set (its shape is read but not compared).
SkipExisting242(dir, name, ow) ==
    Exists(dir, name) /\ ~ow /\ dir[name].loadable

\* Lines 207-253: one iteration of the loop of step_2_4_2_create_original_nifti,
\* giving the NIFTI folder and processed_series after it.
Original242(dir, processed, seg_info, ow) ==
    LET same == [ dir |-> dir, processed |-> processed ]
        series_info == IF seg_info.series_info = KeyAbsent THEN None
                       ELSE seg_info.series_info[1]
    IN
    IF series_info = None THEN same
    ELSE LET series_number == series_info[1].series_number
             series_path == series_info[1].series_folder_path
             nii_name == OriginalName(series_number)
         IN
         IF series_path = None \/ ~IsDir(series_path[1]) THEN same
         ELSE IF series_number \in processed THEN same
         ELSE IF SkipExisting242(dir, nii_name, ow)
              THEN [ dir |-> dir, processed |-> processed \cup {series_number} ]
         ELSE LET loaded == LoadDicomSeries(series_dirs[series_path[1]][1]) IN
              IF ~loaded.ok THEN same
              ELSE [ dir |-> Save(dir, nii_name,
                                  NiftiFile(loaded.dims, loaded.affine, loaded.volume_3d)),
                     processed |-> processed \cup {series_number} ]

\* Lines 196-205: step_2_4_2_create_original_nifti is called.
Begin242 ==
    /\ pc = "idle"
    /\ overwrite' \in BOOLEAN
    /\ processed_series' = {}
    /\ obj_i' = 1
    /\ pc' = "s242"
    /\ UNCHANGED << pkl_store, seg_dict, seg_order, prepared_json >>
    /\ UNCHANGED merge_vars
    /\ UNCHANGED decode_vars
    /\ UNCHANGED << study_series, series_dirs, nifti_dir, rerun, series_sop_uids_cache >>

Step242Object ==
    /\ pc = "s242"
    /\ obj_i <= Len(seg_order)
    /\ LET r == Original242(nifti_dir, processed_series, seg_dict[CurFolder], overwrite)
       IN  /\ nifti_dir' = r.dir
           /\ processed_series' = r.processed
    /\ obj_i' = obj_i + 1
    /\ UNCHANGED << pc, pkl_store, seg_dict, seg_order, prepared_json >>
    /\ UNCHANGED merge_vars
    /\ UNCHANGED decode_vars
    /\ UNCHANGED << study_series, series_dirs, overwrite, rerun, series_sop_uids_cache >>

\* --- 2.4.3
\* sop_uid_to_index[suid]: the last position holding suid (0: not a key).
\* Positions are 1-based here, 0-based in the code.
SopIndex(sop_uid_list, suid) ==
    LET at == { i \in DOMAIN sop_uid_list : sop_uid_list[i] = suid }
    IN  IF at = {} THEN 0 ELSE Max(at)

\* Mutant of SliceIndexOf: a frame whose slice identity is not found is
\* placed by its position in the frame list.
SliceIndexOfPositional(fr, sop_uid_list) ==
    IF SopIndex(sop_uid_list, fr.ref_sop_uid) # 0
    THEN SopIndex(sop_uid_list, fr.ref_sop_uid)
    ELSE IF fr.frame_index + 1 <= Len(sop_uid_list) THEN fr.frame_index + 1 ELSE 0

\* Lines 371-375: the slice index of a frame (0: the frame is not placed).
SliceIndexOf(fr, sop_uid_list) == SopIndex(sop_uid_list, fr.ref_sop_uid)

NamePos(map, seg_name) ==
    IF \E j \in DOMAIN map : map[j].seg_name = seg_name
    THEN CHOOSE j \in DOMAIN map : map[j].seg_name = seg_name
    ELSE 0

\* Lines 366-376: segment_frames_map, a dict in insertion order.
RECURSIVE GroupFrames(_, _, _, _)
GroupFrames(fs, sop_uid_list, i, map) ==
    IF i > Len(fs) THEN map
    ELSE IF SliceIndexOf(fs[i], sop_uid_list) = 0
         THEN GroupFrames(fs, sop_uid_list, i + 1, map)
    ELSE LET seg_name == fs[i].segment_name
             map1 == IF NamePos(map, seg_name) = 0
                     THEN Append(map, [ seg_name |-> seg_name, slices_info |-> << >> ])
                     ELSE map
             j == NamePos(map1, seg_name)
             entry == [ slice_index |-> SliceIndexOf(fs[i], sop_uid_list),
                        mask_2d |-> fs[i].pixel_data ]
         IN  GroupFrames(fs, sop_uid_list, i + 1,
                         [ map1 EXCEPT ![j].slices_info = Append(@, entry) ])

SegmentFramesMap(fs, sop_uid_list) == GroupFrames(fs, sop_uid_list, 1, << >>)

\* mask_2d.shape of a frame: one row of pixels.
Shape2D(mask_2d) == << 1, Len(mask_2d) >>

\* Mutant of PlaceFrom: placement stops at the first frame whose shape
\* disagrees with the series.
RECURSIVE PlaceFromAbort(_, _, _, _)
PlaceFromAbort(slices_info, k, shape_, mask_3d) ==
    IF k > Len(slices_info) THEN mask_3d
    ELSE IF Len(slices_info[k].mask_2d) = shape_[2]
         THEN PlaceFromAbort(slices_info, k + 1, shape_,
                  [ mask_3d EXCEPT ![slices_info[k].slice_index] = slices_info[k].mask_2d ])
    ELSE mask_3d

\* Mutant of PlaceFrom: a frame is combined with what its slice already holds.
RECURSIVE PlaceFromUnion(_, _, _, _)
PlaceFromUnion(slices_info, k, shape_, mask_3d) ==
    IF k > Len(slices_info) THEN mask_3d
    ELSE IF Len(slices_info[k].mask_2d) = shape_[2]
         THEN PlaceFromUnion(slices_info, k + 1, shape_,
                  [ mask_3d EXCEPT ![slices_info[k].slice_index] =
                      [ c \in DOMAIN @ |->
                          IF @[c] # 0 THEN @[c] ELSE slices_info[k].mask_2d[c] ] ])
    ELSE PlaceFromUnion(slices_info, k + 1, shape_, mask_3d)

\* Lines 383-391: mask_3d, filled entry by entry.
RECURSIVE PlaceFrom(_, _, _, _)
PlaceFrom(slices_info, k, shape_, mask_3d) ==
    IF k > Len(slices_info) THEN mask_3d
    ELSE IF Shape2D(slices_info[k].mask_2d) = << shape_[1], shape_[2] >>
         THEN PlaceFrom(slices_info, k + 1, shape_,
                  [ mask_3d EXCEPT ![slices_info[k].slice_index] = slices_info[k].mask_2d ])
    ELSE PlaceFrom(slices_info, k + 1, shape_, mask_3d)

Mask3D(slices_info, shape_) ==
    PlaceFrom(slices_info, 1, shape_,
              [ i \in 1 .. shape_[3] |-> [ c \in 1 .. shape_[2] |-> 0 ] ])

\* Mutant of SkipExisting243: an existing file is never skipped.
SkipExisting243Never(dir, name, shape_, ow) == FALSE

\* Lines 397-404: an existing file is skipped when overwrite is not set, it
\* loads and its shape is the series' shape.
SkipExisting243(dir, name, shape_, ow) ==
    Exists(dir, name) /\ ~ow /\ dir[name].loadable /\ dir[name].shape = shape_

\* Lines 381-408: the loop over segment_frames_map, writing one file per name.
RECURSIVE WriteSegs(_, _, _, _, _, _, _, _)
WriteSegs(dir, map, j, series_number, seg_folder_name, shape_, aff_, ow) ==
    IF j > Len(map) THEN dir
    ELSE LET nii_name == SegName(series_number, map[j].seg_name, seg_folder_name)
             mask_3d == Mask3D(map[j].slices_info, shape_)
         IN  IF SkipExisting243(dir, nii_name, shape_, ow)
             THEN WriteSegs(dir, map, j + 1, series_number, seg_folder_name,
                            shape_, aff_, ow)
             ELSE WriteSegs(Save(dir, nii_name, NiftiFile(shape_, aff_, mask_3d)),
                            map, j + 1, series_number, seg_folder_name,
                            shape_, aff_, ow)

\* series_sop_uids_cache[series_number] = (...)
CachePut(cache, series_number, entry) ==
    [ n \in DOMAIN cache \cup {series_number} |->
        IF n = series_number THEN entry ELSE cache[n] ]

\* Lines 332-408: one iteration of the loop of step_2_4_3_create_seg_nifti.
\* raised: series_info.get(...) on None (AttributeError, line 338).
Seg243(dir, cache, seg_folder_name, seg_info, ow) ==
    LET same == [ raised |-> FALSE, dir |-> dir, cache |-> cache ] IN
    IF seg_info.pkl_file = None \/ pkl_store[seg_info.pkl_file[1]] = None THEN same
    ELSE IF seg_info.series_info = KeyAbsent THEN same
    ELSE IF seg_info.series_info = Present(None)
         THEN [ raised |-> TRUE, dir |-> dir, cache |-> cache ]
    ELSE LET series_info == seg_info.series_info[1][1]
             series_number == series_info.series_number
             series_path == series_info.series_folder_path
         IN
         IF series_number = None \/ series_path = None THEN same
         ELSE IF ~IsDir(series_path[1]) THEN same
         ELSE LET frames == pkl_store[seg_info.pkl_file[1]][1].frames
                  loaded == LoadSopUidOrder(series_dirs[series_path[1]][1])
                  hit == series_number \in DOMAIN cache
              IN  IF ~hit /\ ~loaded.ok THEN same
                  ELSE LET cache1 == IF hit THEN cache
                                     ELSE CachePut(cache, series_number,
                                            [ sop_uid_list |-> loaded.sop_list,
                                              shape_ |-> loaded.shape,
                                              aff_ |-> loaded.aff ])
                           c == cache1[series_number]
                       IN  [ raised |-> FALSE,
                             cache |-> cache1,
                             dir |-> WriteSegs(dir,
                                        SegmentFramesMap(frames, c.sop_uid_list), 1,
                                        series_number, seg_folder_name,
                                        c.shape_, c.aff_, ow) ]

\* Lines 271-285: step_2_4_3_create_seg_nifti is called.
Begin243 ==
    /\ pc = "s242"
    /\ obj_i > Len(seg_order)
    /\ overwrite' \in BOOLEAN
    /\ series_sop_uids_cache' = << >>
    /\ obj_i' = 1
    /\ pc' = "s243"
    /\ UNCHANGED << pkl_store, seg_dict, seg_order, prepared_json >>
    /\ UNCHANGED merge_vars
    /\ UNCHANGED decode_vars
    /\ UNCHANGED << study_series, series_dirs, nifti_dir, rerun, processed_series >>

Step243Object ==
    /\ pc = "s243"
    /\ obj_i <= Len(seg_order)
    /\ LET r == Seg243(nifti_dir, series_sop_uids_cache, CurFolder,
                       seg_dict[CurFolder], overwrite)
       IN  IF r.raised
           THEN /\ pc' = "crashed"
                /\ UNCHANGED << obj_i, nifti_dir, series_sop_uids_cache >>
           ELSE /\ nifti_dir' = r.dir
                /\ series_sop_uids_cache' = r.cache
                /\ obj_i' = obj_i + 1
                /\ UNCHANGED pc
    /\ UNCHANGED << pkl_store, seg_dict, seg_order, prepared_json >>
    /\ UNCHANGED merge_vars
    /\ UNCHANGED decode_vars
    /\ UNCHANGED << study_series, series_dirs, overwrite, rerun, processed_series >>

\* step_2_4_3_create_seg_nifti returns; the two steps may be run once more.
End243 ==
    /\ pc = "s243"
    /\ obj_i > Len(seg_order)
    /\ IF rerun THEN pc' = "nifti_done" ELSE pc' = "idle"
    /\ rerun' = TRUE
    /\ UNCHANGED << pkl_store, seg_dict, seg_order, obj_i, prepared_json >>
    /\ UNCHANGED merge_vars
    /\ UNCHANGED decode_vars
    /\ UNCHANGED << study_series, series_dirs, nifti_dir, overwrite,
                    processed_series, series_sop_uids_cache >>

\* --- the state the volume steps start from
\* Frames of the objects given to the volume steps.
NiftiFrameShapes ==
    { Frame(0, Some(1), Some("A"), Some(<<0, 0, 1>>), Some("u1"), <<1, 0>>),
      Frame(0, Some(1), Some("A"), Some(<<0, 0, 2>>), Some("u2"), <<0, 1>>),
      Frame(0, Some(2), Some("B"), Some(<<0, 0, 1>>), Some("u1"), <<255, 1>>),
      Frame(0, Some(1), Some("A"), Some(<<0, 0, 2>>), Some("u2"), <<1, 0, 1>>),
      Frame(0, None, None, None, None, <<1, 0>>) }

NiftiObjects ==
    { SegData(Reindex(fs)) : fs \in SeqsUpTo(NiftiFrameShapes, MaxFrames) }

\* The second object of the batch: one frame of segment A on slice u1.
SecondObject ==
    SegData(Reindex(<< Frame(0, Some(1), Some("A"), Some(<<0, 0, 1>>),
                             Some("u1"), <<1, 0>>) >>))

\* StudySeries_info.json, in dict order: a series whose identity differs
\* from sA by case only, the series sA (number "5", folder scanA), and a
\* second entry with the identity sA.
StudySeries ==
    << [ series_uid |-> Some("sa"), series_number |-> Some("4"),
         series_folder_path |-> Some("scanL") ],
       [ series_uid |-> Some("sA"), series_number |-> Some("5"),
         series_folder_path |-> Some("scanA") ],
       [ series_uid |-> Some("sA"), series_number |-> Some("6"),
         series_folder_path |-> Some("scanB") ] >>

\* The source-series identity recorded for the first object: none, that of
\* series 5, one the catalog does not hold, that of series 4, and a string
\* that is a series number, not an identity.
RefSeriesUids == { None, Some("sA"), Some("sX"), Some("sa"), Some("5") }

\* Files found in the NIFTI folder when the steps start.
LeftoverDirs ==
    LET choices == { None, Some(CorruptFile), Some(OldFile) } IN
    { [ n \in { m \in { OriginalName(Some("5")), SegName(Some("5"), Some("A"), "S1") } :
                  (m = OriginalName(Some("5")) /\ a # None)
                  \/ (m = SegName(Some("5"), Some("A"), "S1") /\ b # None) }
          |-> IF n = OriginalName(Some("5")) THEN a[1] ELSE b[1] ] :
        a \in choices, b \in choices }

InitNifti ==
    /\ pc = "s241"
    /\ seg_order = << "S1", "S2" >>
    /\ \E first \in { None } \cup { Some(o) : o \in NiftiObjects } :
       \E ref_uid \in RefSeriesUids :
         /\ pkl_store = [ p \in { PklPath("S1"), PklPath("S2") } |->
                            IF p = PklPath("S1") THEN first ELSE Some(SecondObject) ]
         /\ seg_dict = [ f \in { "S1", "S2" } |->
                            IF f = "S1"
                            THEN IF first = None
                                 THEN [ SegInfo(f, SegData(<< >>), ref_uid)
                                          EXCEPT !.pkl_file = None ]
                                 ELSE SegInfo(f, first[1], ref_uid)
                            ELSE SegInfo(f, SecondObject, Some("sA")) ]
    /\ prepared_json = Some(seg_dict)
    /\ obj_i = 1
    /\ merge_plan = [ own |-> << >>, all |-> << >> ]
    /\ dir_i = 1
    /\ seg_data = SegData(<< >>)
    /\ max_seg_num = 0
    /\ study_series = StudySeries
    /\ \E content \in SeriesContents :
         series_dirs = [ p \in { "scanA" } |-> content ]
    /\ nifti_dir \in LeftoverDirs
    /\ overwrite = FALSE
    /\ rerun = FALSE
    /\ processed_series = {}
    /\ series_sop_uids_cache = << >>
    /\ DecodeIdle

NextNifti ==
    \/ Step241
    \/ Begin242
    \/ Step242Object
    \/ Begin243
    \/ Step243Object
    \/ End243

SpecNifti == InitNifti /\ [][NextNifti]_vars

\* ------------------------------------- Step_2_3_DecodeSegmentation.py

\* One item of PerFrameFunctionalGroupsSequence: the values its
\* SegmentIdentificationSequence, DerivationImageSequence/SourceImageSequence
\* and PlanePositionSequence give (None where a sequence or attribute is absent).
PerFrameItem(num, sop, ipp) ==
    [ ReferencedSegmentNumber |-> num, ReferencedSOPInstanceUID |-> sop,
      ImagePositionPatient |-> ipp ]

PerFrameItems ==
    { PerFrameItem(Some(1), Some("u1"), Some(<<0, 0, 1>>)),
      PerFrameItem(Some(2), Some("u2"), Some(<<0, 0, 2>>)),
      PerFrameItem(Some(3), None, Some(<<0, 0, 1>>)),
      PerFrameItem(None, None, None) }

\* ds.SegmentSequence: the segment numbers the file declares.
SegmentSequence == { 1, 2 }

\* ds.pixel_array of the given depth (shape[0]); frame k holds a mark in
\* pixel k mod 2 so that frames are told apart.
PixelArray3d(depth) ==
    [ k \in 1..depth |-> [ i \in 1..2 |-> IF i = ((k - 1) % 2) + 1 THEN 1 ELSE 0 ] ]

\* A segmentation file as pydicom.dcmread(force=True) returns it.  pixel_array
\* is None when the pixel data cannot be decoded (ds.pixel_array raises).
Dataset(nof, pffgs, pixels, series_uid) ==
    [ NumberOfFrames |-> nof, PerFrameFunctionalGroupsSequence |-> pffgs,
      pixel_array |-> pixels, SeriesInstanceUID |-> series_uid ]

Unreadable == Dataset(0, None, None, None)

Datasets ==
    { Unreadable } \cup
    { Dataset(nof, pffgs, Some(PixelArray3d(depth)), Some("sA")) :
        nof \in 0..MaxFrames,
        pffgs \in { None } \cup { Some(s) : s \in SeqsUpTo(PerFrameItems, MaxFrames) },
        depth \in 0..MaxFrames }

\* decode_segmentation_dcm raises instead of returning.
DecodeRaises(ds) == ds.pixel_array = None

\* The frame built from per-frame item k (0-based frame_index k - 1).
DecodedFrame(ds, k) ==
    LET item == ds.PerFrameFunctionalGroupsSequence[1][k]
        num  == item.ReferencedSegmentNumber
        px   == ds.pixel_array[1]
    IN  Frame(k - 1,
              num,
              IF num # None /\ num[1] \in SegmentSequence
              THEN Some(SegmentLabel(num[1])) ELSE None,
              item.ImagePositionPatient,
              item.ReferencedSOPInstanceUID,
              IF k - 1 < Len(px) THEN px[k] ELSE Zeros(<<0, 0>>))

\* The frame of the fallback branch: index and label data only.
FallbackFrame(ds, k) ==
    Frame(k - 1, None, None, None, None, ds.pixel_array[1][k])

PerFrameWellFormed(ds) ==
    /\ ds.PerFrameFunctionalGroupsSequence # None
    /\ Len(ds.PerFrameFunctionalGroupsSequence[1]) = ds.NumberOfFrames

\* Mutant of DecodedFrames: the fallback branch is always taken.
DecodedFramesFallbackOnly(ds) ==
    [ k \in 1..Len(ds.pixel_array[1]) |-> FallbackFrame(ds, k) ]

DecodedFrames(ds) ==
    IF PerFrameWellFormed(ds)
    THEN [ k \in 1..ds.NumberOfFrames |-> DecodedFrame(ds, k) ]
    ELSE [ k \in 1..Len(ds.pixel_array[1]) |-> FallbackFrame(ds, k) ]

\* final_dict, for a dataset whose pixel data decodes.
DecodeSegmentationDcm(ds) == SegData(DecodedFrames(ds))

JsonPath(folder) == << "segmentations_pickles", folder, "withoutImageData" >>

\* dict_no_image: the decoded dictionary with pixel_data popped from each frame.
WithoutImageData(data) ==
    [ num_frames |-> data.num_frames,
      frames |-> [ k \in DOMAIN data.frames |->
                     [ f \in (DOMAIN data.frames[k]) \ { "pixel_data" } |->
                         data.frames[k][f] ] ] ]

\* seg_meta as SelectedSegmentations_info.json holds it.
SelectedMeta(path) == [ assessor_folder_path |-> path ]

\* seg_meta after the five assignments at the end of an iteration.
PreparedMeta(folder, meta, data, series_uid) ==
    [ json_file |-> Some(JsonPath(folder)) ] @@ SegInfo(folder, data, series_uid) @@ meta

AssessorPath(folder) == << "assessors", folder >>

\* The first .dcm file of the assessor folder, None if the folder holds none.
FirstDcm(folder_content) ==
    IF Len(folder_content) = 0 THEN None ELSE Some(folder_content[1])

\* One iteration of main's loop over selected_segmentations.
DecodeObject ==
    /\ pc = "decode"
    /\ obj_i <= Len(seg_order)
    /\ LET folder  == CurFolder
           meta    == seg_dict[folder]
           content == assessor_dirs[meta.assessor_folder_path]
       IN  IF content = None \/ FirstDcm(content[1]) = None
           THEN /\ obj_i' = obj_i + 1
                /\ UNCHANGED << pc, pkl_store, json_store, seg_dict >>
           ELSE LET ds == FirstDcm(content[1])[1]
                IN  IF DecodeRaises(ds)
                    THEN /\ pc' = "crashed"
                         /\ UNCHANGED << obj_i, pkl_store, json_store, seg_dict >>
                    ELSE LET data == DecodeSegmentationDcm(ds)
                         IN  /\ pkl_store' = (PklPath(folder) :> Some(data)) @@ pkl_store
                             /\ json_store' = (JsonPath(folder) :> WithoutImageData(data))
                                                 @@ json_store
                             /\ seg_dict' = [ seg_dict EXCEPT ![folder] =
                                    PreparedMeta(folder, meta, data, ds.SeriesInstanceUID) ]
                             /\ obj_i' = obj_i + 1
                             /\ pc' = pc
    /\ UNCHANGED << seg_order, prepared_json, assessor_dirs >>
    /\ UNCHANGED merge_vars
    /\ UNCHANGED nifti_vars

\* After the loop: PreparedSegmentations_info.json is written.
DecodeWritePrepared ==
    /\ pc = "decode"
    /\ obj_i > Len(seg_order)
    /\ prepared_json' = Some(seg_dict)
    /\ pc' = "decode_done"
    /\ UNCHANGED << pkl_store, seg_dict, seg_order, obj_i >>
    /\ UNCHANGED merge_vars
    /\ UNCHANGED nifti_vars
    /\ UNCHANGED decode_vars

\* What an assessor folder may be: not a directory, a directory without
\* .dcm files, or a directory with one segmentation file.
AssessorContents ==
    { None, Some(<< >>) } \cup { Some(<< ds >>) : ds \in Datasets }

\* The second selected object's folder: readable, unreadable or not a directory.
SecondAssessor ==
    { None, Some(<< Unreadable >>),
      Some(<< Dataset(1, Some(<< PerFrameItem(Some(1), Some("u1"), Some(<<0, 0, 1>>)) >>),
                      Some(PixelArray3d(1)), Some("sA")) >>) }

InitDecode ==
    /\ pc = "decode"
    /\ seg_order = << "S1", "S2" >>
    /\ seg_dict = [ f \in { "S1", "S2" } |-> SelectedMeta(AssessorPath(f)) ]
    /\ \E first \in AssessorContents : \E second \in SecondAssessor :
         assessor_dirs = [ p \in { AssessorPath("S1"), AssessorPath("S2") } |->
                             IF p = AssessorPath("S1") THEN first ELSE second ]
    /\ pkl_store = << >>
    /\ json_store = << >>
    /\ prepared_json = None
    /\ obj_i = 1
    /\ merge_plan = [ own |-> << >>, all |-> << >> ]
    /\ dir_i = 1
    /\ seg_data = SegData(<< >>)
    /\ max_seg_num = 0
    /\ NiftiIdle

NextDecode ==
    \/ DecodeObject
    \/ DecodeWritePrepared

SpecDecode == InitDecode /\ [][NextDecode]_vars

\* ------------------------------------------------ a batch of two objects

\* The pickle of the first object of a batch when the merge script starts:
\* deleted, unreadable, or as decoded.
FirstPickle == { None, Some(UnreadablePickle), Some(SecondObject) }

\* The state the merge script starts from with two selected objects, the
\* first of which may have lost its pickle since the decode step.
InitMergeBatch ==
    /\ pc = "merge_next"
    /\ seg_order = << "S1", "S2" >>
    /\ merge_plan \in MergePlans
    /\ \E first \in FirstPickle :
         pkl_store = [ p \in { PklPath("S1"), PklPath("S2") } |->
                         IF p = PklPath("S1") THEN first ELSE Some(SecondObject) ]
    /\ seg_dict = [ f \in { "S1", "S2" } |-> SegInfo(f, SecondObject, Some("sA")) ]
    /\ prepared_json = Some(seg_dict)
    /\ obj_i = 1
    /\ dir_i = 1
    /\ seg_data = SegData(<< >>)
    /\ max_seg_num = 0
    /\ NiftiIdle
    /\ DecodeIdle

SpecMergeBatch == InitMergeBatch /\ [][NextMerge]_vars

\* ------------------------------------- decode, then merge once or twice

\* merge_plan.json files given to the merge script after a decode run.
PipelinePlans ==
    { [ own |-> << Directive({Some("A"), Some("B")}, Some("C")) >>,
        all |-> << >> ],
      [ own |-> << Directive({Some("A"), Some("B")}, Some("C")) >>,
        all |-> << Directive({Some("C"), Some("B")}, Some("D")) >> ],
      [ own |-> << Directive({Some("C"), Some("B")}, Some("D")) >>,
        all |-> << Directive({Some("A"), Some("B")}, Some("C")) >> ],
      [ own |-> << >>,
        all |-> << Directive({Some("Z")}, Some("C")),
                   Directive({Some("A"), Some("B")}, Some("C")) >> ] }

\* Lines 88-145 of ConcatMultiplObjects.py: the merge script is started on
\* the catalog the decode step or an earlier merge run wrote; it loads
\* PreparedSegmentations_info.json and merge_plan.json.
MergeBegin ==
    /\ pc \in { "decode_done", "merge_done" }
    /\ pc = "merge_done" => ~rerun
    /\ rerun' = (pc = "merge_done")
    /\ seg_dict' = prepared_json[1]
    /\ obj_i' = 1
    /\ pc' = "merge_next"
    /\ UNCHANGED << pkl_store, seg_order, prepared_json >>
    /\ UNCHANGED merge_vars
    /\ UNCHANGED << study_series, series_dirs, nifti_dir, overwrite,
                    processed_series, series_sop_uids_cache >>
    /\ UNCHANGED decode_vars

\* The decode script is run on a selection of two objects; merge_plan.json
\* lies next to the catalog.
InitPipeline ==
    /\ pc = "decode"
    /\ seg_order = << "S1", "S2" >>
    /\ seg_dict = [ f \in { "S1", "S2" } |-> SelectedMeta(AssessorPath(f)) ]
    /\ \E first \in AssessorContents : \E second \in SecondAssessor :
         assessor_dirs = [ p \in { AssessorPath("S1"), AssessorPath("S2") } |->
                             IF p = AssessorPath("S1") THEN first ELSE second ]
    /\ pkl_store = << >>
    /\ json_store = << >>
    /\ prepared_json = None
    /\ obj_i = 1
    /\ merge_plan \in PipelinePlans
    /\ dir_i = 1
    /\ seg_data = SegData(<< >>)
    /\ max_seg_num = 0
    /\ NiftiIdle

NextPipeline ==
    \/ DecodeObject
    \/ DecodeWritePrepared
    \/ MergeBegin
    \/ MergeLoadObject
    \/ MergeDirective
    \/ MergeSavePickle
    \/ MergeWriteJson

SpecPipeline == InitPipeline /\ [][NextPipeline]_vars

\* -------------------------- a study with a repeated SeriesNumber
\* The only slice file of the series in folder scanL.
SliceV1 == Slice(Some(1), Some("v1"), 1, 3, "g3", <<50, 51, 52>>)

\* StudySeries_info.json of a study in which two scans carry the same
\* SeriesNumber (Step_2_1_ParseFolder.py keys the catalog by folder name and
\* copies SeriesNumber from the files): series sa in folder scanL and series
\* sA in folder scanA, both numbered "5".
StudySeriesSharedNumber ==
    << [ series_uid |-> Some("sa"), series_number |-> Some("5"),
         series_folder_path |-> Some("scanL") ],
       [ series_uid |-> Some("sA"), series_number |-> Some("5"),
         series_folder_path |-> Some("scanA") ] >>

\* The steps are run on an empty NIFTI folder; the first object references
\* one of the two series or none, the second references sA.
InitNiftiShared ==
    /\ pc = "s241"
    /\ seg_order = << "S1", "S2" >>
    /\ \E first \in { None } \cup { Some(o) : o \in NiftiObjects } :
       \E ref_uid \in { None, Some("sa"), Some("sA") } :
         /\ pkl_store = [ p \in { PklPath("S1"), PklPath("S2") } |->
                            IF p = PklPath("S1") THEN first ELSE Some(SecondObject) ]
         /\ seg_dict = [ f \in { "S1", "S2" } |->
                            IF f = "S1"
                            THEN IF first = None
                                 THEN [ SegInfo(f, SegData(<< >>), ref_uid)
                                          EXCEPT !.pkl_file = None ]
                                 ELSE SegInfo(f, first[1], ref_uid)
                            ELSE SegInfo(f, SecondObject, Some("sA")) ]
    /\ prepared_json = Some(seg_dict)
    /\ obj_i = 1
    /\ merge_plan = [ own |-> << >>, all |-> << >> ]
    /\ dir_i = 1
    /\ seg_data = SegData(<< >>)
    /\ max_seg_num = 0
    /\ study_series = StudySeriesSharedNumber
    /\ \E content \in SeriesContents :
         series_dirs = [ p \in { "scanL", "scanA" } |->
                           IF p = "scanL" THEN Some(<< SliceV1 >>) ELSE content ]
    /\ nifti_dir = << >>
    /\ overwrite = FALSE
    /\ rerun = FALSE
    /\ processed_series = {}
    /\ series_sop_uids_cache = << >>
    /\ DecodeIdle

SpecNiftiShared == InitNiftiShared /\ [][NextNifti]_vars

\* ---------------------------------------------------------------- claims
\* The frames of the current object that the running merge has appended:
\* those beyond the frame list of the pickle still on disk.
LoadedCount == Len(pkl_store[PklPath(CurFolder)][1].frames)

AppendedIdx == (LoadedCount + 1) .. Len(seg_data.frames)

\* The directive that the last MergeDirective step executed.
LastDirective == MergesForThisSeg(merge_plan)[dir_i - 1]

\* C1: a merge run never removes, reorders or modifies a pre-existing frame
\* of a pickle: whenever a pickle on disk changes, its old frame list is a
\* prefix of its new one (every change is an append after position N).
C1_MergeNonDestructive ==
    [][ \A p \in DOMAIN pkl_store :
          pkl_store[p] # None =>
            /\ pkl_store'[p] # None
            /\ IsPrefix(pkl_store[p][1].frames, pkl_store'[p][1].frames) ]_vars

\* C1 witness: the pickle has been overwritten by a run that appended frames
\* (it holds more frames than the catalog on disk, not yet rewritten, records).
C1_Witness ==
    /\ pc = "merge_next"
    /\ obj_i > Len(seg_order)
    /\ \E f \in Range(seg_order) :
         /\ prepared_json[1][f].num_frames > 0
         /\ Len(pkl_store[PklPath(f)][1].frames) > prepared_json[1][f].num_frames

\* C2: every frame emitted by a merge directive has a label array with
\* values in {0, 1} only.
C2_MergeBinary ==
    pc = "merge_directive" =>
        \A i \in AppendedIdx :
            \A k \in DOMAIN seg_data.frames[i].pixel_data :
                seg_data.frames[i].pixel_data[k] \in {0, 1}

\* C2 witness: a directive has emitted a frame for a merge group in which
\* two selected source frames both have value 1 at the same pixel.
C2_Witness ==
    /\ pc = "merge_directive"
    /\ dir_i > 1
    /\ \E i \in AppendedIdx : \E j, k \in 1 .. LoadedCount :
         /\ j < k
         /\ Selected(seg_data.frames[j], LastDirective.old_objects)
         /\ Selected(seg_data.frames[k], LastDirective.old_objects)
         /\ MergeKey(seg_data.frames[j]) = MergeKey(seg_data.frames[i])
         /\ MergeKey(seg_data.frames[k]) = MergeKey(seg_data.frames[i])
         /\ seg_data.frames[j].pixel_data[1] = 1
         /\ seg_data.frames[k].pixel_data[1] = 1
         /\ seg_data.frames[i].segment_name = LastDirective.new_object
         /\ seg_data.frames[i].pixel_data[1] = 1

\* C3: the frames a directive emits share one segment number, that number is
\* (the largest segment number in the frame list when the directive starts)
\* + 1, and it is larger than every number given before.
C3_SegmentNumberIsMaxPlusOne ==
    [][ (pc = "merge_directive" /\ Len(seg_data'.frames) > Len(seg_data.frames)) =>
          \A i \in (Len(seg_data.frames) + 1) .. Len(seg_data'.frames) :
             /\ seg_data'.frames[i].segment_number =
                    Some(MaxSegNum(seg_data.frames) + 1)
             /\ \A j \in 1 .. Len(seg_data.frames) :
                    seg_data.frames[j].segment_number # None =>
                        seg_data.frames[j].segment_number[1] <
                            seg_data'.frames[i].segment_number[1] ]_vars

\* ---- claims about the volume steps
\* The resolved series record of an object (None: no series).
SeriesOf(f) ==
    IF seg_dict[f].series_info = KeyAbsent THEN None ELSE seg_dict[f].series_info[1]

\* The slice files of an object's own reference series (<< >>: none readable).
OwnSeriesFiles(f) ==
    IF SeriesOf(f) = None THEN << >>
    ELSE LET path == SeriesOf(f)[1].series_folder_path IN
         IF path = None \/ ~IsDir(path[1]) THEN << >> ELSE series_dirs[path[1]][1]

\* The reference series' sorted instance identifier list.
RefSopList(f) ==
    LET sorted == SortSlices(OwnSeriesFiles(f))
    IN  [ i \in DOMAIN sorted |-> sorted[i].SOPInstanceUID ]

\* The shape expected for the volumes of an object's reference series.
ExpectedShape(f) ==
    IF OwnSeriesFiles(f) = << >> THEN << >>
    ELSE SeriesShape(SortSlices(OwnSeriesFiles(f)))

FramesOf(f) ==
    IF pkl_store[PklPath(f)] = None THEN << >> ELSE pkl_store[PklPath(f)][1].frames

IsLabelName(name) == Len(name) = 3

\* The label files a step has just written (created or changed).
WrittenLabels ==
    { name \in DOMAIN nifti_dir' :
        /\ IsLabelName(name)
        /\ (name \notin DOMAIN nifti_dir \/ nifti_dir'[name] # nifti_dir[name]) }

NonZero(mask_2d) == \E c \in DOMAIN mask_2d : mask_2d[c] # 0

\* C4: a label volume written by step 2.4.3 holds a frame's label array at
\* slice index i only if a frame of that segment name has a slice identity
\* equal to the i-th identifier of the reference series' sorted list.
C4_PlacedByIdentity ==
    [][ pc = "s243" =>
          \A name \in WrittenLabels :
            \A i \in DOMAIN nifti_dir'[name].data :
              NonZero(nifti_dir'[name].data[i]) =>
                \E k \in DOMAIN FramesOf(name[3]) :
                  /\ Str(FramesOf(name[3])[k].segment_name) = name[2]
                  /\ FramesOf(name[3])[k].ref_sop_uid = RefSopList(name[3])[i]
                  /\ FramesOf(name[3])[k].pixel_data = nifti_dir'[name].data[i] ]_vars

\* C4 witness: a written label volume holds, at slice index i, the array of a
\* frame whose position in the frame list is not i.
C4_Witness ==
    /\ pc = "s243"
    /\ \E name \in DOMAIN nifti_dir :
         /\ IsLabelName(name)
         /\ nifti_dir[name].loadable
         /\ nifti_dir[name].shape = ExpectedShape(name[3])
         /\ \E i \in DOMAIN nifti_dir[name].data : \E k \in DOMAIN FramesOf(name[3]) :
              /\ k # i
              /\ NonZero(nifti_dir[name].data[i])
              /\ Str(FramesOf(name[3])[k].segment_name) = name[2]
              /\ FramesOf(name[3])[k].ref_sop_uid = RefSopList(name[3])[i]
              /\ FramesOf(name[3])[k].pixel_data = nifti_dir[name].data[i]
              /\ \A j \in DOMAIN FramesOf(name[3]) :
                    j # k => FramesOf(name[3])[j].pixel_data # nifti_dir[name].data[i]

\* C5: the label data of a frame whose slice identity is absent or is not an
\* instance identifier of the series is never written: every non-empty slice
\* of a written label volume comes from a frame that has a slice identity.
C5_NullIdentityDropped ==
    [][ pc = "s243" =>
          \A name \in WrittenLabels :
            \A i \in DOMAIN nifti_dir'[name].data :
              NonZero(nifti_dir'[name].data[i]) =>
                \E k \in DOMAIN FramesOf(name[3]) :
                  /\ Str(FramesOf(name[3])[k].segment_name) = name[2]
                  /\ FramesOf(name[3])[k].ref_sop_uid # None
                  /\ FramesOf(name[3])[k].ref_sop_uid = RefSopList(name[3])[i]
                  /\ FramesOf(name[3])[k].pixel_data = nifti_dir'[name].data[i] ]_vars

\* The label file names step 2.4.3 handles for an object.
HandledLabels(f) ==
    IF SeriesOf(f) = None \/ ExpectedShape(f) = << >> THEN {}
    ELSE LET map == SegmentFramesMap(FramesOf(f), RefSopList(f))
         IN  { SegName(SeriesOf(f)[1].series_number, map[j].seg_name, f) :
                 j \in DOMAIN map }

\* C6: once both steps have run, the intensity volume of a series and every
\* label volume of the objects referencing it have the same shape and affine.
C6_SameShapeAndAffine ==
    (rerun /\ pc \in { "idle", "nifti_done" }) =>
        \A f \in Range(seg_order) :
          SeriesOf(f) # None =>
            LET orig == OriginalName(SeriesOf(f)[1].series_number) IN
            \A name \in HandledLabels(f) :
              ( /\ orig \in DOMAIN nifti_dir
                /\ name \in DOMAIN nifti_dir
                /\ nifti_dir[orig].loadable
                /\ nifti_dir[name].loadable ) =>
                  /\ nifti_dir[orig].shape = nifti_dir[name].shape
                  /\ nifti_dir[orig].affine = nifti_dir[name].affine

\* The object a file of the NIFTI folder belongs to (label files), or an
\* object that references the file's series (intensity files).
OwnersOf(name) ==
    IF IsLabelName(name) THEN { f \in Range(seg_order) : f = name[3] }
    ELSE { f \in Range(seg_order) :
             SeriesOf(f) # None /\ OriginalName(SeriesOf(f)[1].series_number) = name }

\* C7: a step run with overwrite=False does not write a destination file
\* that exists, loads and has the expected shape.
C7_SkipLeavesFile ==
    [][ (pc \in { "s242", "s243" } /\ ~overwrite) =>
          \A name \in DOMAIN nifti_dir :
            ( /\ nifti_dir[name].loadable
              /\ \E f \in OwnersOf(name) : nifti_dir[name].shape = ExpectedShape(f) ) =>
                nifti_dir'[name] = nifti_dir[name] ]_vars

\* C7 witness: step 2.4.3 with overwrite=False has passed over object S1,
\* which has a frame of segment A on a slice of the series, while the label
\* file of A left by an earlier run has the expected shape; the file is as
\* it was.
C7_Witness ==
    /\ pc = "s243"
    /\ ~overwrite
    /\ obj_i = 2
    /\ SegName(Some("5"), Some("A"), "S1") \in HandledLabels("S1")
    /\ SegName(Some("5"), Some("A"), "S1") \in DOMAIN nifti_dir
    /\ nifti_dir[SegName(Some("5"), Some("A"), "S1")] = OldFile
    /\ ExpectedShape("S1") = OldFile.shape

\* C8: with overwrite=False, a step that handles a destination file which
\* exists but does not load, or whose shape is not the expected one, leaves
\* it regenerated (loadable, with the expected shape), in step 2.4.2 as in
\* step 2.4.3.
C8_MismatchRegenerated ==
    [][ ~overwrite =>
          /\ ( /\ pc = "s242"
               /\ obj_i <= Len(seg_order)
               /\ SeriesOf(CurFolder) # None
               /\ ExpectedShape(CurFolder) # << >>
               /\ LoadDicomSeries(OwnSeriesFiles(CurFolder)).ok
               /\ SeriesOf(CurFolder)[1].series_number \notin processed_series
               /\ OriginalName(SeriesOf(CurFolder)[1].series_number) \in DOMAIN nifti_dir )
             => LET orig == OriginalName(SeriesOf(CurFolder)[1].series_number) IN
                ( ~nifti_dir[orig].loadable
                  \/ nifti_dir[orig].shape # ExpectedShape(CurFolder) ) =>
                    /\ nifti_dir'[orig].loadable
                    /\ nifti_dir'[orig].shape = ExpectedShape(CurFolder)
          /\ ( /\ pc = "s243"
               /\ obj_i <= Len(seg_order) )
             => \A name \in HandledLabels(CurFolder) \cap DOMAIN nifti_dir :
                ( ~nifti_dir[name].loadable
                  \/ nifti_dir[name].shape # ExpectedShape(CurFolder) ) =>
                    /\ nifti_dir'[name].loadable
                    /\ nifti_dir'[name].shape = ExpectedShape(CurFolder) ]_vars

\* C10: an object whose series identity matches no catalog entry is recorded
\* with a null series reference, and no volume step raises an error on it.
C10_UnresolvedSkipped ==
    /\ pc # "s241" =>
         \A f \in Range(seg_order) :
           ( /\ seg_dict[f].ref_series_uid # None
             /\ MatchedSeries(study_series, seg_dict[f].ref_series_uid) = 0 ) =>
               seg_dict[f].series_info = Present(None)
    /\ pc # "crashed"

\* ---- claims about the decode step

\* The selected objects whose assessor folder holds a segmentation file
\* that decodes.
Decodable ==
    { f \in Range(seg_order) :
        LET content == assessor_dirs[AssessorPath(f)]
        IN  /\ content # None
            /\ FirstDcm(content[1]) # None
            /\ ~DecodeRaises(FirstDcm(content[1])[1]) }

\* The decode run is over, normally or by an exception leaving main.
DecodeEnded == pc \in { "decode_done", "crashed" }

\* C9: when a decode run over a batch has ended, every selected object whose
\* file decodes has its pickle and its companion JSON, whatever happened to
\* the other objects, and PreparedSegmentations_info.json has been written.
C9_DecodeErrorAbortsOnlyThatObject ==
    (assessor_dirs # << >> /\ DecodeEnded) =>
        /\ prepared_json # None
        /\ \A f \in Decodable :
             /\ PklPath(f) \in DOMAIN pkl_store
             /\ JsonPath(f) \in DOMAIN json_store

\* ---- claims about directives and batches of the merge step

\* The directive the next MergeDirective step handles.
ThisDirective == MergesForThisSeg(merge_plan)[dir_i]

\* C11: a directive without old_objects or without new_object is skipped:
\* the step that handles it leaves the frame list, the segment number counter
\* and the catalog record as they are and moves on to the next directive.
C11_InvalidDirectiveSkipped ==
    [][ ( /\ pc = "merge_directive"
          /\ dir_i <= Len(MergesForThisSeg(merge_plan))
          /\ (ThisDirective.old_objects = {} \/ ThisDirective.new_object = None) )
        => /\ seg_data' = seg_data
           /\ max_seg_num' = max_seg_num
           /\ seg_dict' = seg_dict
           /\ pc' = "merge_directive"
           /\ dir_i' = dir_i + 1 ]_vars

\* C11 witness: the first directive was invalid and the second one has
\* emitted frames, numbered as if the first had not been there.
C11_Witness ==
    /\ pc = "merge_directive"
    /\ dir_i = 3
    /\ LET first == MergesForThisSeg(merge_plan)[1]
       IN  first.old_objects = {} \/ first.new_object = None
    /\ AppendedIdx # {}
    /\ \A i \in AppendedIdx :
         /\ seg_data.frames[i].segment_name = LastDirective.new_object
         /\ seg_data.frames[i].segment_number =
               Some(MaxSegNum(SubSeq(seg_data.frames, 1, LoadedCount)) + 1)

\* The objects whose pickle exists and can be loaded.
ReadableObjects ==
    { f \in Range(seg_order) :
        /\ PklPath(f) \in DOMAIN pkl_store
        /\ pkl_store[PklPath(f)] # None
        /\ "frames" \in DOMAIN pkl_store[PklPath(f)][1] }

\* C12: a merge run over a batch in which an object's pickle is missing or
\* unreadable ends normally: the catalog is written, and for every object
\* with a readable pickle the catalog's frame count is that of its pickle
\* (its merges were applied and saved).
C12_MissingArtifactSkipped ==
    pc \in { "merge_done", "crashed" } =>
        /\ pc = "merge_done"
        /\ prepared_json = Some(seg_dict)
        /\ \A f \in ReadableObjects :
             seg_dict[f].num_frames = Len(pkl_store[PklPath(f)][1].frames)

\* The directive that comes at position k when the list under the object's
\* own key is followed by the list under "all".
OwnThenAll(k) ==
    IF k <= Len(merge_plan.own) THEN merge_plan.own[k]
    ELSE merge_plan.all[k - Len(merge_plan.own)]

\* C13: the k-th directive step of object S1 executes the k-th directive of
\* (own list, then "all" list): the frames it appends carry that directive's
\* new name; and a wildcard directive gives its frames a number larger than
\* that of every frame appended earlier in the run, so larger than those of
\* all folder-specific merged segments.
C13_OwnBeforeAll ==
    [][ ( /\ pc = "merge_directive"
          /\ CurFolder = "S1"
          /\ dir_i <= Len(merge_plan.own) + Len(merge_plan.all) )
        => /\ dir_i' = dir_i + 1
           /\ \A i \in (Len(seg_data.frames) + 1) .. Len(seg_data'.frames) :
                /\ seg_data'.frames[i].segment_name = OwnThenAll(dir_i).new_object
                /\ dir_i > Len(merge_plan.own) =>
                     \A j \in AppendedIdx :
                        seg_data.frames[j].segment_number[1] <
                            seg_data'.frames[i].segment_number[1] ]_vars

\* C13 witness: a plan with one directive under the own key and one under
\* "all", of different new names, has been executed and both emitted: the
\* own directive's frames come first and have the smaller number.
C13_Witness ==
    /\ pc = "merge_directive"
    /\ Len(merge_plan.own) = 1
    /\ Len(merge_plan.all) = 1
    /\ merge_plan.own[1].new_object # merge_plan.all[1].new_object
    /\ dir_i = 3
    /\ \E i, j \in AppendedIdx :
         /\ i < j
         /\ seg_data.frames[i].segment_name = merge_plan.own[1].new_object
         /\ seg_data.frames[j].segment_name = merge_plan.all[1].new_object
         /\ seg_data.frames[i].segment_number[1] < seg_data.frames[j].segment_number[1]

\* ---- claims about decode followed by merge runs

\* The objects the decode step has written a pickle for.
DecodedFolders == { f \in Range(seg_order) : PklPath(f) \in DOMAIN pkl_store }

\* The segmentation file an object was decoded from.
SourceDataset(f) == FirstDcm(assessor_dirs[AssessorPath(f)][1])[1]

PickledFrames(f) == pkl_store[PklPath(f)][1].frames

\* The second merge run has saved every pickle; the catalog on disk is
\* still the one the first run wrote.
SecondRunSaved == rerun /\ pc = "merge_next" /\ obj_i > Len(seg_order)

\* The frames the first and the second merge run appended to an object:
\* those after the decoded frames up to the count the first run recorded,
\* and those after them.
FirstRunFrames(f) ==
    SubSeq(PickledFrames(f), Len(DecodedFrames(SourceDataset(f))) + 1,
           prepared_json[1][f].num_frames)

SecondRunFrames(f) ==
    SubSeq(PickledFrames(f), prepared_json[1][f].num_frames + 1,
           Len(PickledFrames(f)))

Named(fs, name) == SelectSeq(fs, LAMBDA fr : fr.segment_name = name)

\* The second run repeats, for every merged name, the frames of the first:
\* as many, with the same label data and slice, and a larger number.
SecondRunRepeatsFirst(f) ==
    \A name \in { FirstRunFrames(f)[i].segment_name : i \in DOMAIN FirstRunFrames(f) } :
       LET a == Named(FirstRunFrames(f), name)
           b == Named(SecondRunFrames(f), name)
       IN  /\ Len(b) = Len(a)
           /\ \A i \in DOMAIN a :
                i \in DOMAIN b =>
                  /\ b[i].pixel_data = a[i].pixel_data
                  /\ b[i].ref_sop_uid = a[i].ref_sop_uid
                  /\ b[i].segment_number[1] > a[i].segment_number[1]

\* C14 as stated: for every plan, the second run of the plan appends, for
\* each directive that emitted k frames in the first run, another k frames of
\* the same name and label data with a larger segment number.
C14_RerunDoubles ==
    SecondRunSaved => \A f \in DecodedFolders : SecondRunRepeatsFirst(f)

\* No directive of the plan takes as input a name that a directive of the
\* plan produces.
NoMergedInput(plan) ==
    \A d, e \in Range(plan.own \o plan.all) : e.new_object \notin d.old_objects

\* C14, amended: when no directive of the plan lists the new_object of a
\* directive of the plan among its old_objects, the second run appends, for
\* each directive that emitted k frames in the first run, another k frames of
\* the same name and label data with a larger segment number.
C14_RerunDoublesUnchained ==
    (SecondRunSaved /\ NoMergedInput(merge_plan)) =>
        \A f \in DecodedFolders : SecondRunRepeatsFirst(f)

\* C14 witness: a plan without chained names has been run twice on an object
\* to which the first run appended frames, and the second run appended as many.
C14_Witness ==
    /\ SecondRunSaved
    /\ NoMergedInput(merge_plan)
    /\ \E f \in DecodedFolders :
         /\ Len(FirstRunFrames(f)) > 0
         /\ Len(SecondRunFrames(f)) = Len(FirstRunFrames(f))

\* The per-frame metadata block of a file is present and has as many items
\* as the file declares frames.
DeclaredPerFrame(ds) ==
    /\ ds.PerFrameFunctionalGroupsSequence # None
    /\ Len(ds.PerFrameFunctionalGroupsSequence[1]) = ds.NumberOfFrames

NullIdentity(fr) ==
    /\ fr.segment_number = None
    /\ fr.segment_name = None
    /\ fr.segment_color = None
    /\ fr.image_position_patient = None
    /\ fr.ref_sop_uid = None

\* C15: a decoded object has as many frames as its file declares when the
\* per-frame block is present with that many items; otherwise it has as many
\* frames as the pixel array is deep, all with null number, name, color,
\* position and slice identity.  num_frames records the frame count.
C15_FrameCount ==
    pc \in { "decode", "decode_done" } =>
      \A f \in DecodedFolders :
        LET ds   == SourceDataset(f)
            data == pkl_store[PklPath(f)][1]
        IN  /\ data.num_frames = Len(data.frames)
            /\ DeclaredPerFrame(ds) => Len(data.frames) = ds.NumberOfFrames
            /\ ~DeclaredPerFrame(ds) =>
                 /\ Len(data.frames) = Len(ds.pixel_array[1])
                 /\ \A k \in DOMAIN data.frames : NullIdentity(data.frames[k])

\* C15 witness: S1 was decoded from a file whose per-frame block has fewer
\* items than the declared count and whose pixel array is not empty; S2 from
\* a file whose block matches the declared count.
C15_Witness ==
    /\ pc = "decode_done"
    /\ DecodedFolders = { "S1", "S2" }
    /\ SourceDataset("S1").PerFrameFunctionalGroupsSequence # None
    /\ Len(SourceDataset("S1").PerFrameFunctionalGroupsSequence[1])
          < SourceDataset("S1").NumberOfFrames
    /\ Len(PickledFrames("S1")) > 0
    /\ DeclaredPerFrame(SourceDataset("S2"))
    /\ Len(PickledFrames("S2")) > 0

\* ---- claims about the resolver

\* The positions of the catalog entries whose identity is exactly uid.
ExactHits(uid) == { k \in DOMAIN study_series : study_series[k].series_uid = uid }

\* C16: after step 2.4.1 an object that declares a source-series identity
\* has the descriptor of the first catalog entry with exactly that identity
\* as series_info, and null when the catalog has no such entry.
C16_ExactFirstMatch ==
    (pc # "s241" /\ study_series # << >>) =>
      \A f \in Range(seg_order) :
        seg_dict[f].ref_series_uid # None =>
          LET hits == ExactHits(seg_dict[f].ref_series_uid) IN
          IF hits = {}
          THEN seg_dict[f].series_info = Present(None)
          ELSE /\ seg_dict[f].series_info # KeyAbsent
               /\ seg_dict[f].series_info[1] # None
               /\ \E k \in hits :
                    /\ \A j \in hits : k <= j
                    /\ seg_dict[f].series_info[1][1].series_uid = study_series[k].series_uid
                    /\ seg_dict[f].series_info[1][1].series_number =
                          study_series[k].series_number
                    /\ seg_dict[f].series_info[1][1].series_folder_path =
                          study_series[k].series_folder_path

\* C16 witness: the resolver has run on an object whose identity two catalog
\* entries carry, behind an entry that differs by case only; the object has
\* the descriptor of the first of the two.
C16_Witness ==
    /\ pc # "s241"
    /\ study_series # << >>
    /\ seg_dict["S1"].ref_series_uid = Some("sA")
    /\ Cardinality(ExactHits(Some("sA"))) = 2
    /\ 1 \notin ExactHits(Some("sA"))
    /\ seg_dict["S1"].series_info = Present(Some(
          [ series_folder_path |-> Some("scanA"), series_number |-> Some("5"),
            series_uid |-> Some("sA") ]))

\* The objects the catalog on disk records an artifact for.
Processed ==
    IF prepared_json = None THEN {}
    ELSE { f \in DOMAIN prepared_json[1] : "pkl_file" \in DOMAIN prepared_json[1][f] }

\* A decode run or a merge run has completed.
RunCompleted == pc \in { "decode_done", "merge_done" }

\* C17: after the decode step and after every completed merge run, the frame
\* count the catalog records for a processed object is the num_frames field
\* of its pickle and the length of the pickle's frame list.
C17_CatalogFrameCount ==
    (RunCompleted /\ assessor_dirs # << >>) =>
      \A f \in Processed :
        /\ prepared_json[1][f].num_frames = pkl_store[PklPath(f)][1].num_frames
        /\ prepared_json[1][f].num_frames = Len(PickledFrames(f))

\* C17 witness: a merge run that appended frames to an object has completed.
C17_Witness ==
    /\ pc = "merge_done"
    /\ assessor_dirs # << >>
    /\ \E f \in Processed :
         /\ Len(PickledFrames(f)) > Len(DecodedFrames(SourceDataset(f)))
         /\ prepared_json[1][f].num_frames = Len(PickledFrames(f))

\* The non-null segment names carried by the frames of an object's pickle.
PickledNames(f) ==
    { PickledFrames(f)[i].segment_name[1] :
        i \in { j \in DOMAIN PickledFrames(f) : PickledFrames(f)[j].segment_name # None } }

\* C18: after the decode step and after every completed merge run, the
\* catalog's segment_name_count of a processed object gives, for every
\* non-null segment name, the number of frames of the pickle with that name.
C18_NameCountMatchesFrames ==
    (RunCompleted /\ assessor_dirs # << >>) =>
      \A f \in Processed :
        \A name \in PickledNames(f) :
          /\ name \in DOMAIN prepared_json[1][f].segment_name_count
          /\ prepared_json[1][f].segment_name_count[name] =
                Cardinality({ i \in DOMAIN PickledFrames(f) :
                                PickledFrames(f)[i].segment_name = Some(name) })

\* The objects that have both a pickle and a companion JSON file.
WithCompanion ==
    { f \in Range(seg_order) :
        PklPath(f) \in DOMAIN pkl_store /\ JsonPath(f) \in DOMAIN json_store }

\* C19: after any completed decode or merge run, the companion JSON of an
\* object has the object-level fields of the pickle and the same frame
\* sequence without the label arrays: the same count, and per frame the same
\* index, segment number, segment name and slice identity.
C19_CompanionMatchesPickle ==
    (RunCompleted /\ assessor_dirs # << >>) =>
      \A f \in WithCompanion :
        LET data == pkl_store[PklPath(f)][1]
            comp == json_store[JsonPath(f)]
        IN  /\ comp.num_frames = data.num_frames
            /\ Len(comp.frames) = Len(data.frames)
            /\ \A k \in DOMAIN data.frames :
                 k \in DOMAIN comp.frames =>
                   /\ comp.frames[k].frame_index = data.frames[k].frame_index
                   /\ comp.frames[k].segment_number = data.frames[k].segment_number
                   /\ comp.frames[k].segment_name = data.frames[k].segment_name
                   /\ comp.frames[k].ref_sop_uid = data.frames[k].ref_sop_uid

\* ---- claims about the files of the label-volume step

\* Step 2.4.3 has gone over every object in its first run.
Step243Completed == pc = "s243" /\ obj_i > Len(seg_order) /\ ~rerun

\* No file of the output folder is one left by an earlier export: every file
\* there was written by the running steps, as in a folder that was empty
\* when they started.
OnlyFreshFiles ==
    \A name \in DOMAIN nifti_dir :
       nifti_dir[name] # OldFile /\ nifti_dir[name] # CorruptFile

LabelFilesOf(f) ==
    { name \in DOMAIN nifti_dir : IsLabelName(name) /\ name[3] = f }

\* C20: when step 2.4.3 has completed on a folder without earlier files,
\* an object with a readable pickle and a resolved series that loads has one
\* label file for every segment name its frames carry, whether or not any
\* frame of that name has a slice identity of the series, and no label file
\* for another name.
C20_OneFilePerName ==
    (Step243Completed /\ OnlyFreshFiles) =>
      \A f \in Range(seg_order) :
        ( /\ pkl_store[PklPath(f)] # None
          /\ SeriesOf(f) # None
          /\ ExpectedShape(f) # << >> ) =>
            /\ \A k \in DOMAIN FramesOf(f) :
                 FramesOf(f)[k].segment_name # None =>
                   SegName(SeriesOf(f)[1].series_number,
                           FramesOf(f)[k].segment_name, f) \in DOMAIN nifti_dir
            /\ \A name \in LabelFilesOf(f) :
                 \E k \in DOMAIN FramesOf(f) :
                   name = SegName(SeriesOf(f)[1].series_number,
                                  FramesOf(f)[k].segment_name, f)

\* The frames of object f, named as label file name says, whose slice
\* identity is the i-th identifier of the series and whose 2D shape is the
\* series' (rows, cols).
FittingFrames(name, i) ==
    { k \in DOMAIN FramesOf(name[3]) :
        /\ Str(FramesOf(name[3])[k].segment_name) = name[2]
        /\ FramesOf(name[3])[k].ref_sop_uid = RefSopList(name[3])[i]
        /\ Shape2D(FramesOf(name[3])[k].pixel_data) =
              << ExpectedShape(name[3])[1], ExpectedShape(name[3])[2] >> }

\* The frames that are matched to slice i but have another 2D shape.
MisfitFrames(name, i) ==
    { k \in DOMAIN FramesOf(name[3]) :
        /\ Str(FramesOf(name[3])[k].segment_name) = name[2]
        /\ FramesOf(name[3])[k].ref_sop_uid = RefSopList(name[3])[i]
        /\ Shape2D(FramesOf(name[3])[k].pixel_data) #
              << ExpectedShape(name[3])[1], ExpectedShape(name[3])[2] >> }

\* A name of the current object of which some frame, matched to a slice of
\* the series, has another 2D shape than the series.
WithMisfit(name) ==
    \E i \in DOMAIN RefSopList(name[3]) : MisfitFrames(name, i) # {}

\* C21: for a name with a frame whose 2D shape disagrees with the series'
\* (rows, cols), step 2.4.3 still leaves a file for the name, and the volume
\* it writes has the series' shape in every slice: a slice to which only
\* misfit frames are matched stays zero, and a slice to which frames of the
\* series' shape are matched holds one of them.
C21_MisfitFrameSkipped ==
    [][ (pc = "s243" /\ obj_i <= Len(seg_order) /\ pc' = "s243") =>
          \A name \in HandledLabels(CurFolder) :
            WithMisfit(name) =>
              /\ name \in DOMAIN nifti_dir'
              /\ name \in WrittenLabels =>
                   \A i \in DOMAIN nifti_dir'[name].data :
                     /\ Len(nifti_dir'[name].data[i]) = ExpectedShape(name[3])[2]
                     /\ FittingFrames(name, i) = {} =>
                           ~NonZero(nifti_dir'[name].data[i])
                     /\ FittingFrames(name, i) # {} =>
                           \E k \in FittingFrames(name, i) :
                              nifti_dir'[name].data[i] =
                                 FramesOf(name[3])[k].pixel_data ]_vars

\* C21 witness: a label volume has been written for a name of which one
\* frame fits the series and is placed in its slice, and another frame is a
\* misfit whose slice is zero.
C21_Witness ==
    /\ pc = "s243"
    /\ \E name \in DOMAIN nifti_dir :
         /\ IsLabelName(name)
         /\ nifti_dir[name].loadable
         /\ nifti_dir[name] # OldFile
         /\ nifti_dir[name].shape = ExpectedShape(name[3])
         /\ \E i, j \in DOMAIN nifti_dir[name].data :
              /\ i # j
              /\ FittingFrames(name, i) # {}
              /\ NonZero(nifti_dir[name].data[i])
              /\ FittingFrames(name, j) = {}
              /\ MisfitFrames(name, j) # {}
              /\ ~NonZero(nifti_dir[name].data[j])

\* ---- claims about the frames a merge directive emits

\* The frames the step about to be taken appends.
NewIdx == (Len(seg_data.frames) + 1) .. Len(seg_data'.frames)

\* A MergeDirective step that handles a valid directive.
ValidDirectiveStep ==
    /\ pc = "merge_directive"
    /\ dir_i <= Len(MergesForThisSeg(merge_plan))
    /\ ThisDirective.old_objects # {}
    /\ ThisDirective.new_object # None

\* slice_map of the directive about to be handled.
ThisSliceMap == SliceMap(seg_data.frames, ThisDirective.old_objects)

\* C22: no frame a directive appends is all zero; a group whose clipped sum
\* has no foreground gets no frame; a directive all of whose groups are all
\* zero, or that selects no frame, leaves the frame list and the frame counts
\* as they are.
C22_NoEmptyMergedFrame ==
    [][ ValidDirectiveStep =>
          /\ \A i \in NewIdx : NonZero(seg_data'.frames[i].pixel_data)
          /\ \A j \in DOMAIN ThisSliceMap :
               ~NonZero(ThisSliceMap[j].mask) =>
                  \A i \in NewIdx : MergeKey(seg_data'.frames[i]) # ThisSliceMap[j].key
          /\ (\A j \in DOMAIN ThisSliceMap : ~NonZero(ThisSliceMap[j].mask)) =>
                /\ seg_data'.frames = seg_data.frames
                /\ seg_data'.num_frames = seg_data.num_frames
                /\ seg_dict'[CurFolder].num_frames = seg_dict[CurFolder].num_frames ]_vars

\* C22 witness: the first directive selected an all-zero frame, alone in its
\* group, and has emitted frames, none of them for that group.
C22_Witness ==
    /\ pc = "merge_directive"
    /\ dir_i = 2
    /\ AppendedIdx # {}
    /\ \E k \in 1 .. LoadedCount :
         /\ Selected(seg_data.frames[k], LastDirective.old_objects)
         /\ ~NonZero(seg_data.frames[k].pixel_data)
         /\ \A i \in AppendedIdx : MergeKey(seg_data.frames[i]) # MergeKey(seg_data.frames[k])

\* (slice identity, in-plane position) of a frame.
SliceKey(fr) == << fr.ref_sop_uid, fr.image_position_patient >>

\* The frames present before the step that are named by the directive and
\* have the given key.
GroupOf(key) ==
    { k \in DOMAIN seg_data.frames :
        /\ seg_data.frames[k].segment_name \in ThisDirective.old_objects
        /\ SliceKey(seg_data.frames[k]) = key }

\* The sum, pixel c, of the frames ks as an 8 bit unsigned number.
RECURSIVE PixelSum(_, _)
PixelSum(ks, c) ==
    IF ks = {} THEN 0
    ELSE LET k == CHOOSE x \in ks : TRUE
         IN  (seg_data.frames[k].pixel_data[c] + PixelSum(ks \ {k}, c)) % Uint8Mod

\* The combination of the frames ks: their sum, clipped to [0, 1].
Combined(ks) ==
    LET any == seg_data.frames[CHOOSE x \in ks : TRUE].pixel_data
    IN  [ c \in DOMAIN any |-> IF PixelSum(ks, c) > 1 THEN 1 ELSE PixelSum(ks, c) ]

\* C23: the frames a directive appends have pairwise distinct keys (slice
\* identity, in-plane position); each has a slice identity and is the
\* combination of exactly the listed frames with its key; every key whose
\* combination has foreground gets a frame; listed frames without slice
\* identity are in no group.
C23_OneFramePerKey ==
    [][ ValidDirectiveStep =>
          /\ \A i, j \in NewIdx :
               SliceKey(seg_data'.frames[i]) = SliceKey(seg_data'.frames[j]) => i = j
          /\ \A i \in NewIdx :
               /\ seg_data'.frames[i].ref_sop_uid # None
               /\ GroupOf(SliceKey(seg_data'.frames[i])) # {}
               /\ seg_data'.frames[i].pixel_data =
                     Combined(GroupOf(SliceKey(seg_data'.frames[i])))
          /\ \A k \in DOMAIN seg_data.frames :
               ( /\ seg_data.frames[k].segment_name \in ThisDirective.old_objects
                 /\ seg_data.frames[k].ref_sop_uid # None
                 /\ NonZero(Combined(GroupOf(SliceKey(seg_data.frames[k])))) )
               => \E i \in NewIdx :
                     SliceKey(seg_data'.frames[i]) = SliceKey(seg_data.frames[k]) ]_vars

\* C23 witness: the first directive has emitted two frames for the same
\* slice identity, one per in-plane position.
C23_Witness ==
    /\ pc = "merge_directive"
    /\ dir_i = 2
    /\ \E i, j \in AppendedIdx :
         /\ i # j
         /\ seg_data.frames[i].ref_sop_uid = seg_data.frames[j].ref_sop_uid
         /\ seg_data.frames[i].image_position_patient #
               seg_data.frames[j].image_position_patient

\* C24: every frame a directive appends is the union of its group: a pixel
\* is 1 when some listed frame with the frame's key is nonzero there, and 0
\* otherwise.
C24_MergedIsUnion ==
    [][ ValidDirectiveStep =>
          \A i \in NewIdx :
            \A c \in DOMAIN seg_data'.frames[i].pixel_data :
               seg_data'.frames[i].pixel_data[c] =
                  IF \E k \in GroupOf(SliceKey(seg_data'.frames[i])) :
                        seg_data.frames[k].pixel_data[c] # 0
                  THEN 1 ELSE 0 ]_vars

\* ---- claims about frame indices and segment numbers

\* frame_index is the 0-based position, and num_frames the length.
IndexedByPosition(data) ==
    /\ data.num_frames = Len(data.frames)
    /\ \A k \in DOMAIN data.frames : data.frames[k].frame_index = k - 1

\* C25: after decoding and after any merge runs and directives, every
\* frame's frame_index is its position in the object's frame list, in every
\* pickle on disk and in the object a merge run holds in memory.
C25_FrameIndexIsPosition ==
    /\ \A p \in DOMAIN pkl_store :
         pkl_store[p] # None => IndexedByPosition(pkl_store[p][1])
    /\ pc = "merge_directive" => IndexedByPosition(seg_data)

\* C25 witness: a merge run on a decoded object has saved a pickle whose
\* last frame was emitted by a directive that also selected an all-zero
\* frame, for which it emitted nothing.
C25_Witness ==
    /\ pc \in { "merge_next", "merge_done" }
    /\ \E f \in DecodedFolders :
         /\ Len(PickledFrames(f)) > Len(DecodedFrames(SourceDataset(f)))
         /\ \E k \in DOMAIN PickledFrames(f) :
              /\ k < Len(PickledFrames(f))
              /\ PickledFrames(f)[k].segment_name = Some("B")
              /\ PickledFrames(f)[k].ref_sop_uid # None
              /\ ~NonZero(PickledFrames(f)[k].pixel_data)
              /\ PickledFrames(f)[Len(PickledFrames(f))].segment_name = Some("D")
              /\ PickledFrames(f)[Len(PickledFrames(f))].ref_sop_uid #
                    PickledFrames(f)[k].ref_sop_uid

\* ---- claims about the series cache of step 2.4.3

\* The series number step 2.4.3 reads for an object (None: the object is
\* skipped before the cache is consulted).
CacheKeyOf(f) ==
    IF SeriesOf(f) = None \/ pkl_store[PklPath(f)] = None THEN None
    ELSE IF OwnSeriesFiles(f) = << >> THEN None
    ELSE SeriesOf(f)[1].series_number

\* C26: in a run of step 2.4.3 the identifier list, shape and affine used
\* for an object are those of its own reference series, whatever objects were
\* processed before it: the files after the object's iteration are those the
\* iteration produces from a fresh scan of the object's own series folder;
\* and a series already in the cache is not scanned again (the cache is left
\* as it is).
C26_OwnSeriesUsed ==
    [][ (pc = "s243" /\ obj_i <= Len(seg_order) /\ pc' = "s243") =>
          /\ nifti_dir' = Seg243(nifti_dir, << >>, CurFolder,
                                 seg_dict[CurFolder], overwrite).dir
          /\ \A name \in WrittenLabels :
               /\ nifti_dir'[name].shape = ExpectedShape(CurFolder)
               /\ nifti_dir'[name].affine =
                     Affine(SortSlices(OwnSeriesFiles(CurFolder))[1])
          /\ ( /\ CacheKeyOf(CurFolder) # None
               /\ CacheKeyOf(CurFolder) \in DOMAIN series_sop_uids_cache )
             => series_sop_uids_cache' = series_sop_uids_cache ]_vars

\* ---- claims about the slice order

\* The intensity volume of series 5, when this run's step 2.4.2 wrote it.
FreshOriginal ==
    IF /\ OriginalName(Some("5")) \in DOMAIN nifti_dir
       /\ nifti_dir[OriginalName(Some("5"))].loadable
       /\ nifti_dir[OriginalName(Some("5"))] # OldFile
    THEN Some(nifti_dir[OriginalName(Some("5"))])
    ELSE None

\* C27: the slice order of the intensity volume (load_dicom_series) and of
\* the identifier list used for label volumes (load_sop_uid_order) are the
\* same: when step 2.4.2 has written the volume of a series and step 2.4.3
\* has cached the series' identifier list, they have the same length and
\* index i of both comes from the same slice file.
C27_SameSliceOrder ==
    ( /\ pc = "s243"
      /\ Some("5") \in DOMAIN series_sop_uids_cache
      /\ FreshOriginal # None ) =>
        LET files == series_dirs["scanA"][1]
            vol   == FreshOriginal[1].data
            sops  == series_sop_uids_cache[Some("5")].sop_uid_list
        IN  /\ Len(vol) = Len(sops)
            /\ \A i \in DOMAIN vol :
                 \E k \in DOMAIN files :
                    /\ vol[i] = files[k].pixel_array
                    /\ sops[i] = files[k].SOPInstanceUID

\* C27 witness: both have been computed for a series whose two slice files
\* tie on the ordering key, one by the default 0.
C27_Witness ==
    /\ pc = "s243"
    /\ Some("5") \in DOMAIN series_sop_uids_cache
    /\ FreshOriginal # None
    /\ Len(FreshOriginal[1].data) = 2
    /\ LET files == series_dirs["scanA"][1]
       IN  /\ files[1].InstanceNumber = None
           /\ SortKey(files[1]) = SortKey(files[2])
           /\ series_sop_uids_cache[Some("5")].sop_uid_list =
                 << files[1].SOPInstanceUID, files[2].SOPInstanceUID >>

\* ---- claims about label volumes of merged objects

\* The reference series against which the label volumes of the decoded and
\* merged objects are built: two 1x2 slices, u1 then u2.
MergedRefSops == << Some("u1"), Some("u2") >>

MergedRefShape == << 1, 2, Len(MergedRefSops) >>

\* The label volume step 2.4.3 computes for a name from a frame list
\* (None: the name gets no volume).
LabelVolumeOf(fs, name) ==
    LET map == SegmentFramesMap(fs, MergedRefSops)
    IN  IF NamePos(map, name) = 0 THEN None
        ELSE Some(Mask3D(map[NamePos(map, name)].slices_info, MergedRefShape))

\* The frames of a list that carry the name and the i-th slice identity.
SameNameAndSlice(fs, name, i) ==
    { k \in DOMAIN fs : fs[k].segment_name = name /\ fs[k].ref_sop_uid = MergedRefSops[i] }

\* A slice of a name's label volume holds the label array of the last frame
\* of that name mapped to it.
LastFrameWins(fs) ==
    \A name \in { fs[k].segment_name : k \in DOMAIN fs } :
      LabelVolumeOf(fs, name) # None =>
        \A i \in DOMAIN MergedRefSops :
          SameNameAndSlice(fs, name, i) # {} =>
            LabelVolumeOf(fs, name)[1][i] =
               fs[Max(SameNameAndSlice(fs, name, i))].pixel_data

\* The frame list of an object as the first merge run left it.
AfterFirstRun(f) == SubSeq(PickledFrames(f), 1, prepared_json[1][f].num_frames)

\* The second run of the plan leaves the label volume of every merged name
\* as it was after the first run.
RerunKeepsVolumes(f) ==
    \A name \in { FirstRunFrames(f)[i].segment_name : i \in DOMAIN FirstRunFrames(f) } :
       LabelVolumeOf(PickledFrames(f), name) = LabelVolumeOf(AfterFirstRun(f), name)

\* C28 as stated: a slice to which several frames of one name map holds the
\* last one's label array, and for every plan the second run of the plan
\* leaves the label volume of each merged name unchanged.
C28_LastWinsRerunSame ==
    /\ \A f \in DecodedFolders : LastFrameWins(PickledFrames(f))
    /\ SecondRunSaved => \A f \in DecodedFolders : RerunKeepsVolumes(f)

\* C28, amended: a slice to which several frames of one name map holds the
\* last one's label array; when no directive of the plan lists the new_object
\* of a directive of the plan among its old_objects, the second run of the
\* plan leaves the label volume of each merged name unchanged.
C28_LastWinsRerunSameUnchained ==
    /\ \A f \in DecodedFolders : LastFrameWins(PickledFrames(f))
    /\ (SecondRunSaved /\ NoMergedInput(merge_plan)) =>
          \A f \in DecodedFolders : RerunKeepsVolumes(f)

\* C28 witness: after the second run of a plan without chained names an
\* object holds two decoded frames of one name on one slice with different
\* label arrays, and a merged name with one frame per run on one slice.
C28_Witness ==
    /\ SecondRunSaved
    /\ NoMergedInput(merge_plan)
    /\ \E f \in DecodedFolders :
         /\ \E k, l \in DOMAIN PickledFrames(f) :
              /\ k < l
              /\ PickledFrames(f)[k].segment_name = PickledFrames(f)[l].segment_name
              /\ PickledFrames(f)[k].ref_sop_uid = PickledFrames(f)[l].ref_sop_uid
              /\ PickledFrames(f)[k].ref_sop_uid = Some("u1")
              /\ PickledFrames(f)[k].pixel_data # PickledFrames(f)[l].pixel_data
         /\ Len(FirstRunFrames(f)) > 0
         /\ Len(SecondRunFrames(f)) > 0

\* C29: the segment number a directive gives its frames is strictly greater
\* than every segment number carried by a frame the object held before the
\* directive (decoded frames, frames of earlier directives and of earlier runs).
C29_NewNumberAboveAll ==
    [][ ValidDirectiveStep =>
          \A i \in NewIdx :
            /\ seg_data'.frames[i].segment_number # None
            /\ \A k \in DOMAIN seg_data.frames :
                 seg_data.frames[k].segment_number # None =>
                   seg_data'.frames[i].segment_number[1] >
                      seg_data.frames[k].segment_number[1] ]_vars

\* C29 witness: in the second run, the second directive has emitted frames
\* for an object that held numbered decoded frames, frames of the first run
\* and frames of the first directive of this run.
C29_Witness ==
    /\ rerun
    /\ pc = "merge_directive"
    /\ dir_i = 3
    /\ \E i \in AppendedIdx : \E j \in AppendedIdx : \E k \in 1 .. LoadedCount :
         /\ i = Len(seg_data.frames)
         /\ seg_data.frames[j].segment_number[1] < seg_data.frames[i].segment_number[1]
         /\ seg_data.frames[k].segment_name = seg_data.frames[i].segment_name
         /\ seg_data.frames[1].segment_number # None

\* C30: a directive that lists the name of frames appended by an earlier
\* directive of the same run emits, for each such frame, a frame with the
\* same key that has foreground wherever that frame has.
C30_LaterDirectiveSeesEarlier ==
    [][ ValidDirectiveStep =>
          \A k \in AppendedIdx :
            seg_data.frames[k].segment_name \in ThisDirective.old_objects =>
              \E i \in NewIdx :
                 /\ SliceKey(seg_data'.frames[i]) = SliceKey(seg_data.frames[k])
                 /\ \A c \in DOMAIN seg_data.frames[k].pixel_data :
                      seg_data.frames[k].pixel_data[c] # 0 =>
                         seg_data'.frames[i].pixel_data[c] # 0 ]_vars

=============================================================================
